---- MODULE Spec2Model ----
(***************************************************************************)
(* Request-time retrieval -> scoring -> role filtering -> context assembly *)
(* pipeline of LibreChat-Ollama (app/context, app/controllers).            *)
(*                                                                         *)
(* Python values are tagged tuples: a str is <<"str", chars>> with chars a *)
(* sequence of one-character strings, None is <<"none">>, a missing        *)
(* dictionary key is <<>>, a number is <<"num", r>> and any other object   *)
(* is <<"obj">>.  Floats are exact rationals [n, d] in lowest terms;       *)
(* embedding vectors are integer sequences with an integer norm.           *)
(***************************************************************************)
EXTENDS Integers, Sequences, FiniteSets, TLC

\* ---------------------------------------------------------------- bounds
\* Dim: embedding dimension; MaxCands: chunks handed to score_chunks or
\* format_chunks; MaxRetrieved: chunks get_chunks hands to inject;
\* MaxNorm: largest vector norm; MaxBudget: largest max_tokens tried
Dim == 2
MaxCands == 3
MaxRetrieved == 2
MaxNorm == 13
MaxBudget == 5

\* ------------------------------------------------------------- constants
MAX_CONTEXT_TOKENS == 8000

\* ------------------------------------------------------- python values
Absent == <<>>
None == <<"none">>
Obj == <<"obj">>
Str(s) == <<"str", s>>
Num(r) == <<"num", r>>
Vec(v) == <<"vec", v>>
IsStr(x) == Len(x) = 2 /\ x[1] = "str"
IsNum(x) == Len(x) = 2 /\ x[1] = "num"
IsVec(x) == Len(x) = 2 /\ x[1] = "vec"

\* dict.get(key, default): the default replaces a missing key only
Get(x, default) == IF x = Absent THEN default ELSE x

\* ----------------------------------------------------------- str methods
UpperToLower ==
  [A |-> "a", B |-> "b", C |-> "c", D |-> "d", E |-> "e", F |-> "f",
   G |-> "g", H |-> "h", I |-> "i", J |-> "j", K |-> "k", L |-> "l",
   M |-> "m", N |-> "n", O |-> "o", P |-> "p", Q |-> "q", R |-> "r",
   S |-> "s", T |-> "t", U |-> "u", V |-> "v", W |-> "w", X |-> "x",
   Y |-> "y", Z |-> "z"]

Lower(s) ==
  [i \in 1..Len(s) |->
     IF s[i] \in DOMAIN UpperToLower THEN UpperToLower[s[i]] ELSE s[i]]

\* the Python expression  sub in s
Contains(s, sub) ==
  \E i \in 0..(Len(s) - Len(sub)) : SubSeq(s, i + 1, i + Len(sub)) = sub

IsSpace(c) == c \in {" ", "\n", "\t"}

\* str.strip()
Strip(s) ==
  LET keep == {i \in 1..Len(s) : ~IsSpace(s[i])}
  IN  IF keep = {} THEN <<>>
      ELSE LET lo == CHOOSE i \in keep : \A j \in keep : i <= j
               hi == CHOOSE i \in keep : \A j \in keep : j <= i
           IN  SubSeq(s, lo, hi)

\* len(str.split()): the number of maximal runs of non-whitespace
WordCount(s) ==
  Cardinality({i \in 1..Len(s) :
                 ~IsSpace(s[i]) /\ (i = 1 \/ IsSpace(s[i - 1]))})

\* os.path.splitext(p)[1]
SplitExt(p) ==
  LET seps == {i \in 1..Len(p) : p[i] = "/"}
      dots == {i \in 1..Len(p) : p[i] = "."}
      sep  == IF seps = {} THEN 0
              ELSE CHOOSE i \in seps : \A j \in seps : j <= i
      dot  == IF dots = {} THEN 0
              ELSE CHOOSE i \in dots : \A j \in dots : j <= i
  IN  IF dot > sep /\ \E k \in (sep + 1)..(dot - 1) : p[k] # "."
      THEN SubSeq(p, dot, Len(p))
      ELSE <<>>

\* -------------------------------------------------------------- rationals
Abs(x) == IF x < 0 THEN -x ELSE x

RECURSIVE GCD(_, _)
GCD(a, b) == IF b = 0 THEN a ELSE GCD(b, a % b)

Rat(n, d) ==
  LET g == GCD(Abs(n), d) IN [n |-> n \div g, d |-> d \div g]

Zero == Rat(0, 1)
RAdd(x, y) == Rat(x.n * y.d + y.n * x.d, x.d * y.d)
RLt(x, y) == x.n * y.d < y.n * x.d
RLeq(x, y) == x.n * y.d <= y.n * x.d
Hundredths(h) == Rat(h, 100)

\* ---------------------------------------------------------------- vectors
Zeros(n) == [i \in 1..n |-> 0]

RECURSIVE SumProd(_, _, _)
SumProd(v, w, i) ==
  IF i = 0 THEN 0 ELSE v[i] * w[i] + SumProd(v, w, i - 1)

Dot(v, w) == SumProd(v, w, Len(v))
Norm(v) == CHOOSE n \in 0..MaxNorm : n * n = Dot(v, v)

\* ------------------------------------------------------- character data
S_controller == <<"c", "o", "n", "t", "r", "o", "l", "l", "e", "r">>
S_service == <<"s", "e", "r", "v", "i", "c", "e">>
S_frontend == <<"f", "r", "o", "n", "t", "e", "n", "d">>
S_jsx == <<".", "j", "s", "x">>
S_dockerfile == <<"d", "o", "c", "k", "e", "r", "f", "i", "l", "e">>
P_ctrl == <<"a", "p", "p", "/", "c", "o", "n", "t", "r", "o", "l", "l", "e", "r", "s", "/", "x", ".", "p", "y">>
P_front == <<"a", "p", "p", "/", "f", "r", "o", "n", "t", "e", "n", "d", "/", "y", ".", "j", "s", "x">>
P_docker == <<"D", "o", "c", "k", "e", "r", "f", "i", "l", "e">>
P_readme == <<"R", "E", "A", "D", "M", "E", ".", "m", "d">>
P_svc == <<"l", "i", "b", "/", "A", "u", "t", "h", "S", "e", "r", "v", "i", "c", "e", ".", "P", "Y">>
A_class == <<"c", "l", "a", "s", "s">>
A_function == <<"f", "u", "n", "c", "t", "i", "o", "n">>
A_method == <<"m", "e", "t", "h", "o", "d">>
A_variable == <<"v", "a", "r", "i", "a", "b", "l", "e">>
A_constant == <<"c", "o", "n", "s", "t", "a", "n", "t">>
A_property == <<"p", "r", "o", "p", "e", "r", "t", "y">>
A_import == <<"i", "m", "p", "o", "r", "t">>
A_comment == <<"c", "o", "m", "m", "e", "n", "t">>
A_docstring == <<"d", "o", "c", "s", "t", "r", "i", "n", "g">>
A_default == <<"d", "e", "f", "a", "u", "l", "t">>
A_component == <<"c", "o", "m", "p", "o", "n", "e", "n", "t">>
A_config == <<"c", "o", "n", "f", "i", "g">>
S_None == <<"N", "o", "n", "e">>
S_unknown == <<"u", "n", "k", "n", "o", "w", "n">>
F_file == <<"-", "-", "-", " ", "F", "i", "l", "e", ":", " ">>
F_type == <<" ", "|", " ", "T", "y", "p", "e", ":", " ">>
F_rel == <<" ", "|", " ", "R", "e", "l", "e", "v", "a", "n", "c", "e", ":", " ">>
F_end == <<" ", "-", "-", "-", "\n">>
F_open == <<"-", "-", "-", " ">>
S_nl == <<"\n">>
X_py == <<".", "p", "y">>
X_js == <<".", "j", "s">>
X_ts == <<".", "t", "s">>
X_tsx == <<".", "t", "s", "x">>
X_json == <<".", "j", "s", "o", "n">>
X_yaml == <<".", "y", "a", "m", "l">>
X_yml == <<".", "y", "m", "l">>
X_md == <<".", "m", "d">>
X_txt == <<".", "t", "x", "t">>
S_any == <<"a", "n", "y">>
M_no_context == <<"N", "o", " ", "r", "e", "l", "e", "v", "a", "n", "t", " ", "c", "o", "n", "t", "e", "x", "t", " ", "f", "o", "u", "n", "d", ".">>
M_error == <<"E", "r", "r", "o", "r", " ", "o", "c", "c", "u", "r", "r", "e", "d", " ", "d", "u", "r", "i", "n", "g", " ", "i", "n", "f", "e", "r", "e", "n", "c", "e", ".">>
M_status == <<"E", "r", "r", "o", "r", " ", "g", "e", "n", "e", "r", "a", "t", "i", "n", "g", " ", "r", "e", "s", "p", "o", "n", "s", "e", ":", " ">>
DEFAULT_INFERENCE_MODEL == <<"c", "o", "d", "e", "l", "l", "a", "m", "a", ":", "1", "3", "b">>
T_def == <<"d", "e", "f", " ", "f">>
T_abc == <<"a", " ", "b", " ", "c">>
T_from == <<"u", "s", "e", " ", "j", "w", "t">>
T_ws == <<" ", " ">>
T_one == <<"x">>
T_okpad == <<" ", "o", "k", "\n">>
T_ctx == <<"c", "t", "x">>
T_timeout == <<"t", "i", "m", "e", "d", " ", "o", "u", "t">>
T_refused == <<"r", "e", "f", "u", "s", "e", "d">>
T_q == <<"q">>

\* ------------------------------------------------------ EmbeddingService
\* What the embedding backend does with a text: answer 200 with a vector of
\* any length, answer another status, or fail to answer.
Reply200(v) == [kind |-> "ok", embedding |-> v]
ReplyBadStatus == [kind |-> "status"]
ReplyException == [kind |-> "exception"]

\* a short vector is returned as it is
FitDimNoPadding(e) == IF Len(e) > Dim THEN SubSeq(e, 1, Dim) ELSE e

\* the dimension adjustment of embed()
FitDim(e) ==
  IF Len(e) > Dim THEN SubSeq(e, 1, Dim)
  ELSE IF Len(e) < Dim THEN e \o Zeros(Dim - Len(e))
  ELSE e

\* embed() dereferences text.strip() before its try block
EmbedRaises(text) == ~IsStr(text) /\ text # None /\ text # Absent

\* a failed request leaves a vector that is not zero
embedStaleOnFailure(text, backend) ==
  IF ~IsStr(text) \/ Strip(text[2]) = <<>>
  THEN Zeros(Dim)
  ELSE LET r == backend[text[2]]
       IN  IF r.kind # "ok" THEN FitDim(<<3, 4>>)
           ELSE FitDim(r.embedding)

embed(text, backend) ==
  IF ~IsStr(text) \/ Strip(text[2]) = <<>>
  THEN Zeros(Dim)
  ELSE LET r == backend[text[2]]
       IN  IF r.kind # "ok" THEN Zeros(Dim)
           ELSE FitDim(r.embedding)

\* -------------------------------------------------- ChunkRelevanceScorer
\* imports and comments are not penalised
ast_boostsNoPenalty(ast_type) ==
  CASE ast_type \in {Str(A_class), Str(A_function), Str(A_method)}
         -> Hundredths(15)
    [] ast_type \in {Str(A_variable), Str(A_constant), Str(A_property)}
         -> Hundredths(5)
    [] OTHER -> Zero

ast_boosts(ast_type) ==
  CASE ast_type \in {Str(A_class), Str(A_function), Str(A_method)}
         -> Hundredths(15)
    [] ast_type \in {Str(A_variable), Str(A_constant), Str(A_property)}
         -> Hundredths(5)
    [] ast_type \in {Str(A_import), Str(A_comment)} -> Hundredths(-10)
    [] ast_type \in {Str(A_docstring), Str(A_default)} -> Zero
    [] OTHER -> Zero

file_type_boosts(ext) ==
  CASE ext \in {X_py, X_js, X_ts, S_jsx, X_tsx} -> Hundredths(10)
    [] ext \in {X_json, X_yaml, X_yml} -> Hundredths(5)
    [] ext \in {X_md, X_txt} -> Hundredths(-5)
    [] OTHER -> Zero

\* float division as numpy performs it: a zero divisor gives nan (or inf)
\* and a warning, not an exception
NaN == [n |-> 0, d |-> 0]
Divide(n, d) == IF d = 0 THEN NaN ELSE Rat(n, d)

\* np.dot raises ValueError for arrays of different lengths
DotRaises(v1, v2) == Len(v1) # Len(v2)

\* the zero-norm test always fails
ZeroNormNever(v1, v2) == FALSE

\* if norm_v1 == 0 or norm_v2 == 0
ZeroNorm(v1, v2) == Norm(v1) = 0 \/ Norm(v2) = 0

\* v1 and v2 are None or vectors
_cosine_similarity(v1, v2) ==
  IF v1 = None \/ v2 = None THEN Zero
  ELSE IF DotRaises(v1[2], v2[2]) THEN Zero
  ELSE IF ZeroNorm(v1[2], v2[2]) THEN Zero
  ELSE Divide(Dot(v1[2], v2[2]), Norm(v1[2]) * Norm(v2[2]))

\* every chunk is embedded, whether it carries an embedding or not
NeedsEmbeddingAlways(chunk) == TRUE

\* chunk_embedding = chunk.get("embedding"); if chunk_embedding is None:
NeedsEmbedding(chunk) == chunk.embedding \in {Absent, None}

\* One iteration of the scoring loop: the chunk as the iteration leaves it,
\* whether the iteration raised, and the texts it had embedded.
ScoreOneChunk(chunk, query_embedding, backend) ==
  LET need     == NeedsEmbedding(chunk)
      content  == Get(chunk.content, Str(<<>>))
      embRaise == need /\ EmbedRaises(content)
      emb      == IF need THEN embed(content, backend) ELSE chunk.embedding[2]
      c1       == IF need /\ ~embRaise
                  THEN [chunk EXCEPT !.embedding = Vec(emb)] ELSE chunk
      file_path == Get(chunk.file_path, Str(<<>>))
      extRaise == ~IsStr(file_path)
      similarity == _cosine_similarity(Vec(query_embedding), Vec(emb))
      ast_boost == ast_boosts(Get(chunk.ast_type, Str(A_default)))
      file_boost == file_type_boosts(Lower(SplitExt(file_path[2])))
  IN  IF embRaise
      THEN [chunk |-> chunk, raised |-> TRUE, embedded |-> <<content>>]
      ELSE IF extRaise
      THEN [chunk |-> c1, raised |-> TRUE,
            embedded |-> IF need THEN <<content>> ELSE <<>>]
      ELSE [chunk |-> [c1 EXCEPT
                         !.score = Num(RAdd(RAdd(similarity, ast_boost),
                                            file_boost)),
                         !.similarity = Num(similarity),
                         !.ast_boost = Num(ast_boost),
                         !.file_boost = Num(file_boost)],
            raised |-> FALSE,
            embedded |-> IF need THEN <<content>> ELSE <<>>]

\* for chunk in chunks: ...  (chunks are mutated in place; the loop stops at
\* the first iteration that raises)
RECURSIVE ScoreLoop(_, _, _, _)
ScoreLoop(chunks, i, query_embedding, backend) ==
  IF i > Len(chunks)
  THEN [chunks |-> chunks, raised |-> FALSE, embedded |-> <<>>]
  ELSE LET one == ScoreOneChunk(chunks[i], query_embedding, backend)
           now == [chunks EXCEPT ![i] = one.chunk]
       IN  IF one.raised
           THEN [chunks |-> now, raised |-> TRUE, embedded |-> one.embedded]
           ELSE LET rest == ScoreLoop(now, i + 1, query_embedding, backend)
                IN  [rest EXCEPT !.embedded = one.embedded \o @]

\* an element goes before the elements of equal key
InsertByScoreUnstable(sorted, c) ==
  LET before == {i \in 1..Len(sorted) :
                   \A j \in 1..i : RLt(c.score[2], sorted[j].score[2])}
      k == Cardinality(before)
  IN  SubSeq(sorted, 1, k) \o <<c>> \o SubSeq(sorted, k + 1, Len(sorted))

\* sorted(chunks, key=lambda c: c["score"], reverse=True): stable, an element
\* goes behind every element whose key is not smaller
InsertByScore(sorted, c) ==
  LET before == {i \in 1..Len(sorted) :
                   \A j \in 1..i : RLeq(c.score[2], sorted[j].score[2])}
      k == Cardinality(before)
  IN  SubSeq(sorted, 1, k) \o <<c>> \o SubSeq(sorted, k + 1, Len(sorted))

RECURSIVE SortedByScore(_, _)
SortedByScore(chunks, n) ==
  IF n = 0 THEN <<>>
  ELSE InsertByScore(SortedByScore(chunks, n - 1), chunks[n])

\* score_chunks: ret is the returned list, chunks the caller's list after the
\* call, failed tells that the except branch ran
score_chunks(query, chunks, backend) ==
  IF chunks = <<>>
  THEN [ret |-> <<>>, chunks |-> chunks, failed |-> FALSE, embedded |-> <<>>]
  ELSE IF EmbedRaises(query)
  THEN [ret |-> chunks, chunks |-> chunks, failed |-> TRUE,
        embedded |-> <<>>]
  ELSE LET loop == ScoreLoop(chunks, 1, embed(query, backend), backend)
       IN  [ret |-> IF loop.raised THEN loop.chunks
                    ELSE SortedByScore(loop.chunks, Len(loop.chunks)),
            chunks |-> loop.chunks,
            failed |-> loop.raised,
            embedded |-> <<query>> \o loop.embedded]

\* ----------------------------------------------- RoleAwareContextInjector
R_frontend == <<"f", "r", "o", "n", "t", "e", "n", "d">>
R_backend == <<"b", "a", "c", "k", "e", "n", "d">>
R_devops == <<"d", "e", "v", "o", "p", "s">>
R_security == <<"s", "e", "c", "u", "r", "i", "t", "y">>
R_refactor == <<"r", "e", "f", "a", "c", "t", "o", "r">>
R_default == <<"d", "e", "f", "a", "u", "l", "t">>
R_Backend == <<"B", "a", "c", "k", "e", "n", "d">>
R_DEFAULT == <<"D", "E", "F", "A", "U", "L", "T">>
R_qa == <<"q", "a">>
R_Refactor == <<"R", "e", "f", "a", "c", "t", "o", "r">>
role_keywords ==
     R_frontend :>
      {<<"u", "i">>,
       <<"v", "i", "e", "w">>,
       <<"c", "o", "m", "p", "o", "n", "e", "n", "t">>,
       <<"h", "t", "m", "l">>,
       <<"c", "s", "s">>,
       <<"j", "s", "x">>,
       <<"t", "s", "x">>,
       <<"r", "e", "a", "c", "t">>,
       <<"a", "n", "g", "u", "l", "a", "r">>,
       <<"v", "u", "e">>,
       <<"d", "o", "m">>,
       <<"s", "t", "y", "l", "e">>,
       <<"c", "l", "i", "e", "n", "t">>,
       <<"b", "r", "o", "w", "s", "e", "r">>}
  @@ R_backend :>
      {<<"c", "o", "n", "t", "r", "o", "l", "l", "e", "r">>,
       <<"s", "e", "r", "v", "i", "c", "e">>,
       <<"m", "o", "d", "e", "l">>,
       <<"a", "p", "i">>,
       <<"d", "b">>,
       <<"d", "a", "t", "a", "b", "a", "s", "e">>,
       <<"s", "e", "r", "v", "e", "r">>,
       <<"r", "o", "u", "t", "e">>,
       <<"e", "n", "d", "p", "o", "i", "n", "t">>,
       <<"q", "u", "e", "r", "y">>,
       <<"r", "e", "p", "o", "s", "i", "t", "o", "r", "y">>,
       <<"d", "a", "o">>}
  @@ R_devops :>
      {<<"d", "e", "p", "l", "o", "y">>,
       <<"c", "i">>,
       <<"c", "d">>,
       <<"p", "i", "p", "e", "l", "i", "n", "e">>,
       <<"d", "o", "c", "k", "e", "r">>,
       <<"k", "u", "b", "e", "r", "n", "e", "t", "e", "s">>,
       <<"k", "8", "s">>,
       <<"c", "o", "n", "t", "a", "i", "n", "e", "r">>,
       <<"c", "o", "n", "f", "i", "g">>,
       <<"e", "n", "v">>,
       <<"e", "n", "v", "i", "r", "o", "n", "m", "e", "n", "t">>}
  @@ R_security :>
      {<<"a", "u", "t", "h">>,
       <<"a", "u", "t", "h", "e", "n", "t", "i", "c", "a", "t", "i", "o", "n">>,
       <<"a", "u", "t", "h", "o", "r", "i", "z", "a", "t", "i", "o", "n">>,
       <<"p", "e", "r", "m", "i", "s", "s", "i", "o", "n">>,
       <<"r", "o", "l", "e">>,
       <<"e", "n", "c", "r", "y", "p", "t">>,
       <<"d", "e", "c", "r", "y", "p", "t">>,
       <<"h", "a", "s", "h">>,
       <<"t", "o", "k", "e", "n">>,
       <<"j", "w", "t">>,
       <<"o", "a", "u", "t", "h">>}
  @@ R_refactor :>
      {<<"a", "n", "y">>}
  @@ R_default :>
      {<<"a", "n", "y">>}

role_file_patterns ==
     R_frontend :>
      {<<".", "j", "s">>,
       <<".", "j", "s", "x">>,
       <<".", "t", "s">>,
       <<".", "t", "s", "x">>,
       <<".", "h", "t", "m", "l">>,
       <<".", "c", "s", "s">>,
       <<".", "s", "c", "s", "s">>,
       <<".", "v", "u", "e">>,
       <<"c", "o", "m", "p", "o", "n", "e", "n", "t">>,
       <<"v", "i", "e", "w">>,
       <<"p", "a", "g", "e">>,
       <<"c", "l", "i", "e", "n", "t">>,
       <<"f", "r", "o", "n", "t">>,
       <<"u", "i">>}
  @@ R_backend :>
      {<<".", "p", "y">>,
       <<".", "j", "a", "v", "a">>,
       <<".", "r", "b">>,
       <<".", "g", "o">>,
       <<".", "p", "h", "p">>,
       <<".", "c", "s">>,
       <<"c", "o", "n", "t", "r", "o", "l", "l", "e", "r">>,
       <<"s", "e", "r", "v", "i", "c", "e">>,
       <<"m", "o", "d", "e", "l">>,
       <<"r", "e", "p", "o", "s", "i", "t", "o", "r", "y">>,
       <<"d", "a", "o">>,
       <<"a", "p", "i">>,
       <<"s", "e", "r", "v", "e", "r">>,
       <<"b", "a", "c", "k", "e", "n", "d">>}
  @@ R_devops :>
      {<<"D", "o", "c", "k", "e", "r", "f", "i", "l", "e">>,
       <<"d", "o", "c", "k", "e", "r", "-", "c", "o", "m", "p", "o", "s", "e">>,
       <<".", "y", "m", "l">>,
       <<".", "y", "a", "m", "l">>,
       <<".", "t", "f">>,
       <<"p", "i", "p", "e", "l", "i", "n", "e">>,
       <<"d", "e", "p", "l", "o", "y">>,
       <<"c", "o", "n", "f", "i", "g">>,
       <<".", "e", "n", "v">>,
       <<"k", "8", "s">>}
  @@ R_security :>
      {<<"a", "u", "t", "h">>,
       <<"s", "e", "c", "u", "r", "i", "t", "y">>,
       <<"p", "e", "r", "m", "i", "s", "s", "i", "o", "n">>,
       <<"r", "o", "l", "e">>,
       <<"e", "n", "c", "r", "y", "p", "t">>,
       <<"p", "o", "l", "i", "c", "y">>}
  @@ R_refactor :>
      {}
  @@ R_default :>
      {}

\* the table of a role, or of "default" when the role has no entry
TableGet(table, role) ==
  IF role \in DOMAIN table THEN table[role] ELSE table[R_default]

\* chunk.get(key, "").lower() raises unless the value is a str
LowerRaises(value) == ~IsStr(Get(value, Str(<<>>)))
LowerOf(value) == Lower(Get(value, Str(<<>>))[2])

\* "service" is not looked for
BackendPredicateControllerOnly(chunk) ==
  Contains(LowerOf(chunk.file_path), S_controller)

BackendPredicate(chunk) ==
  \/ Contains(LowerOf(chunk.file_path), S_controller)
  \/ Contains(LowerOf(chunk.file_path), S_service)

FrontendPredicate(chunk) ==
  \/ Contains(LowerOf(chunk.file_path), S_frontend)
  \/ Contains(LowerOf(chunk.file_path), S_jsx)

DevopsPredicate(chunk) == Contains(LowerOf(chunk.file_path), S_dockerfile)

\* the keywords are not looked at
GenericPredicatePathOnly(role, chunk) ==
  \E pattern \in TableGet(role_file_patterns, role) :
     Contains(LowerOf(chunk.file_path), Lower(pattern))

GenericPredicate(role, chunk) ==
  \/ \E pattern \in TableGet(role_file_patterns, role) :
       Contains(LowerOf(chunk.file_path), Lower(pattern))
  \/ \E keyword \in TableGet(role_keywords, role) :
       Contains(LowerOf(chunk.content), Lower(keyword))

PathRaises(chunks) ==
  \E i \in 1..Len(chunks) : LowerRaises(chunks[i].file_path)

\* _filter_by_role(chunks) for self.role = role
_filter_by_role(role, chunks) ==
  LET keywords == TableGet(role_keywords, role)
      file_patterns == TableGet(role_file_patterns, role)
      generic(c) == GenericPredicate(role, c)
  IN  IF S_any \in keywords
         \/ (keywords = {} /\ file_patterns = {})
      THEN [raised |-> FALSE, ret |-> chunks]
      ELSE IF role = R_backend
      THEN IF PathRaises(chunks) THEN [raised |-> TRUE]
           ELSE [raised |-> FALSE,
                 ret |-> SelectSeq(chunks, BackendPredicate)]
      ELSE IF role = R_frontend
      THEN IF PathRaises(chunks) THEN [raised |-> TRUE]
           ELSE [raised |-> FALSE,
                 ret |-> SelectSeq(chunks, FrontendPredicate)]
      ELSE IF role = R_devops
      THEN IF PathRaises(chunks) THEN [raised |-> TRUE]
           ELSE [raised |-> FALSE,
                 ret |-> SelectSeq(chunks, DevopsPredicate)]
      ELSE IF \E i \in 1..Len(chunks) :
                LowerRaises(chunks[i].file_path)
                  \/ LowerRaises(chunks[i].content)
      THEN [raised |-> TRUE]
      ELSE [raised |-> FALSE,
            ret |-> SelectSeq(chunks, generic)]

\* refactor and default are filtered like backend
FilterForRoleNoIdentity(role, all_chunks) ==
  IF role \in {R_backend, R_refactor, R_default}
  THEN IF PathRaises(all_chunks) THEN [raised |-> TRUE]
       ELSE [raised |-> FALSE,
             ret |-> SelectSeq(all_chunks, BackendPredicate)]
  ELSE _filter_by_role(role, all_chunks)

\* the role dispatch of inject (lines 124-150)
FilterForRole(role, all_chunks) ==
  IF role = R_backend
  THEN IF PathRaises(all_chunks) THEN [raised |-> TRUE]
       ELSE [raised |-> FALSE,
             ret |-> SelectSeq(all_chunks, BackendPredicate)]
  ELSE IF role = R_frontend
  THEN IF PathRaises(all_chunks) THEN [raised |-> TRUE]
       ELSE [raised |-> FALSE,
             ret |-> SelectSeq(all_chunks, FrontendPredicate)]
  ELSE IF role = R_devops
  THEN IF PathRaises(all_chunks) THEN [raised |-> TRUE]
       ELSE [raised |-> FALSE,
             ret |-> SelectSeq(all_chunks, DevopsPredicate)]
  ELSE IF role = R_refactor \/ role = R_default
  THEN [raised |-> FALSE, ret |-> all_chunks]
  ELSE _filter_by_role(role, all_chunks)

\* no fallback to the unfiltered candidates
FallbackNever(filtered_chunks, all_chunks) == filtered_chunks

\* if not filtered_chunks: filtered_chunks = all_chunks
FallbackIfEmpty(filtered_chunks, all_chunks) ==
  IF filtered_chunks = <<>> THEN all_chunks ELSE filtered_chunks

\* no truncation
SliceToAll(l, m) == l

\* the slice l[:m]
SliceTo(l, m) ==
  IF m >= 0 THEN SubSeq(l, 1, IF m < Len(l) THEN m ELSE Len(l))
  ELSE SubSeq(l, 1, IF Len(l) + m > 0 THEN Len(l) + m ELSE 0)

\* the two logging loops over top_chunks format chunk.get('score', 0) with
\* :.4f and split chunk.get('file_path', '')
LoggingRaises(top_chunks) ==
  \E i \in 1..Len(top_chunks) :
     \/ ~IsNum(Get(top_chunks[i].score, Num(Zero)))
     \/ ~IsStr(Get(top_chunks[i].file_path, Str(<<>>)))

NoScorerCall == [called |-> FALSE]

\* the logging loops and the return of inject (lines 162-171); scoring
\* records what the scorer was handed and gave back
InjectReturn(top_chunks, scoring) ==
  IF LoggingRaises(top_chunks)
  THEN [ret |-> <<>>, raised |-> TRUE, scoring |-> scoring]
  ELSE [ret |-> top_chunks, raised |-> FALSE, scoring |-> scoring]

\* top_chunks = scored_chunks[:max_chunks] (line 160)
InjectSelect(sc, kept, filtered_chunks, max_chunks) ==
  InjectReturn(SliceTo(sc.ret, max_chunks),
               [called |-> TRUE, kept |-> kept, input |-> filtered_chunks,
                output |-> sc.ret, failed |-> sc.failed])

\* scored_chunks = self.scorer.score_chunks(query, filtered_chunks)
InjectScore(kept, filtered_chunks, query, max_chunks, backend) ==
  InjectSelect(score_chunks(query, filtered_chunks, backend), kept,
               filtered_chunks, max_chunks)

\* the fallback after the role dispatch (lines 152-154)
InjectFiltered(f, query, all_chunks, max_chunks, backend) ==
  IF f.raised
  THEN [ret |-> <<>>, raised |-> TRUE, scoring |-> NoScorerCall]
  ELSE InjectScore(f.ret, FallbackIfEmpty(f.ret, all_chunks), query,
                   max_chunks, backend)

\* inject(): role is the constructor argument, all_chunks what
\* retriever.get_chunks returns; the outcome tells what was returned and what
\* the scorer was handed and gave back
inject(role_arg, query, all_chunks, max_chunks, backend) ==
  IF all_chunks = <<>>
  THEN [ret |-> <<>>, raised |-> FALSE, scoring |-> NoScorerCall]
  ELSE InjectFiltered(FilterForRole(Lower(role_arg), all_chunks), query,
                      all_chunks, max_chunks, backend)

\* ------------------------------------------------------ ContextFormatter
DigitChars == <<"0", "1", "2", "3", "4", "5", "6", "7", "8", "9">>

\* str(n) for a natural number
RECURSIVE Digits(_)
Digits(n) ==
  IF n < 10 THEN <<DigitChars[n + 1]>>
  ELSE Digits(n \div 10) \o <<DigitChars[(n % 10) + 1]>>

\* n/d rounded to the nearest integer, halves to the even neighbour
RoundHalfEven(n, d) ==
  LET q == n \div d
      r == n % d
  IN  IF 2 * r < d THEN q
      ELSE IF 2 * r > d THEN q + 1
      ELSE IF q % 2 = 0 THEN q ELSE q + 1

\* format(x, ".2f")
Format2f(x) ==
  LET h == RoundHalfEven(Abs(x.n) * 100, x.d)
  IN  (IF x.n < 0 THEN <<"-">> ELSE <<>>)
        \o Digits(h \div 100) \o <<".">>
        \o <<DigitChars[((h \div 10) % 10) + 1], DigitChars[(h % 10) + 1]>>

\* str(x) inside an f-string
ToText(x) ==
  IF IsStr(x) THEN x[2]
  ELSE IF x = None THEN S_None
  ELSE IF IsNum(x) THEN Format2f(x[2])
  ELSE <<"?">>

\* len(content.split()) raises unless content is a str
SplitRaises(chunk) == ~IsStr(Get(chunk.content, Str(<<>>)))
token_estimate(chunk) == WordCount(Get(chunk.content, Str(<<>>))[2])

\* format(score, ".2f") raises unless score is a number
ScoreFormatRaises(chunk) == ~IsNum(Get(chunk.score, Num(Zero)))

\* a chunk that meets the budget exactly is refused
OverBudgetInclusive(total_tokens, estimate, max_tokens) ==
  total_tokens + estimate >= max_tokens

\* if total_tokens + token_estimate > self.max_tokens: break
OverBudget(total_tokens, estimate, max_tokens) ==
  total_tokens + estimate > max_tokens

formatted_chunk(chunk, include_metadata) ==
  LET content == Get(chunk.content, Str(<<>>))[2]
      file_path == ToText(Get(chunk.file_path, Str(S_unknown)))
      ast_type == ToText(Get(chunk.ast_type, Str(S_unknown)))
      score == Format2f(Get(chunk.score, Num(Zero))[2])
  IN  IF include_metadata
      THEN F_file \o file_path \o F_type \o ast_type \o F_rel \o score
             \o F_end \o content \o S_nl
      ELSE F_open \o file_path \o F_end \o content \o S_nl

\* the loop of format_chunks from chunk i on: the blocks appended and
\* whether an iteration raised
RECURSIVE FormatLoop(_, _, _, _, _)
FormatLoop(chunks, i, total_tokens, include_metadata, max_tokens) ==
  IF i > Len(chunks) THEN [blocks |-> <<>>, raised |-> FALSE]
  ELSE IF SplitRaises(chunks[i]) THEN [blocks |-> <<>>, raised |-> TRUE]
  ELSE IF OverBudget(total_tokens, token_estimate(chunks[i]), max_tokens)
  THEN [blocks |-> <<>>, raised |-> FALSE]
  ELSE IF include_metadata /\ ScoreFormatRaises(chunks[i])
  THEN [blocks |-> <<>>, raised |-> TRUE]
  ELSE LET rest == FormatLoop(chunks, i + 1,
                              total_tokens + token_estimate(chunks[i]),
                              include_metadata, max_tokens)
       IN  [rest EXCEPT
              !.blocks = <<formatted_chunk(chunks[i], include_metadata)>>
                           \o @]

\* sep.join(parts)
RECURSIVE Join(_, _)
Join(parts, sep) ==
  IF parts = <<>> THEN <<>>
  ELSE IF Len(parts) = 1 THEN parts[1]
  ELSE parts[1] \o sep \o Join(Tail(parts), sep)

\* the except branch returns the blocks built before the error
format_chunksPartial(chunks, include_metadata, max_tokens) ==
  IF chunks = <<>> THEN [ret |-> <<>>, included |-> 0, failed |-> FALSE]
  ELSE LET loop == FormatLoop(chunks, 1, 0, include_metadata, max_tokens)
       IN  [ret |-> Join(loop.blocks, S_nl),
            included |-> Len(loop.blocks), failed |-> loop.raised]

\* format_chunks: the returned text, the number of blocks in it and whether
\* the except branch ran
format_chunks(chunks, include_metadata, max_tokens) ==
  IF chunks = <<>> THEN [ret |-> <<>>, included |-> 0, failed |-> FALSE]
  ELSE LET loop == FormatLoop(chunks, 1, 0, include_metadata, max_tokens)
       IN  IF loop.raised
           THEN [ret |-> <<>>, included |-> 0, failed |-> TRUE]
           ELSE [ret |-> Join(loop.blocks, S_nl),
                 included |-> Len(loop.blocks), failed |-> FALSE]

F_intro == <<"\n", "I", "'", "l", "l", " ", "h", "e", "l", "p", " ", "y", "o", "u", " ", "w", "i", "t", "h", " ", "y", "o", "u", "r", " ", "r", "e", "q", "u", "e", "s", "t", ".", " ", "H", "e", "r", "e", "'", "s", " ", "s", "o", "m", "e", " ", "r", "e", "l", "e", "v", "a", "n", "t", " ", "c", "o", "d", "e", " ", "f", "r", "o", "m", " ", "t", "h", "e", " ", "p", "r", "o", "j", "e", "c", "t", ":", "\n", "\n">>
F_regarding == <<"\n", "\n", "N", "o", "w", ",", " ", "r", "e", "g", "a", "r", "d", "i", "n", "g", " ", "y", "o", "u", "r", " ", "r", "e", "q", "u", "e", "s", "t", ":", "\n", "\n">>

\* the request is left out of the text
PromptWithContextNoRequest(prompt, formatted_context) ==
  F_intro \o formatted_context \o F_regarding \o S_nl

\* the f-string of lines 104-112
PromptWithContext(prompt, formatted_context) ==
  F_intro \o formatted_context \o F_regarding \o prompt \o S_nl

\* if not formatted_context: return prompt
PromptOrContext(prompt, formatted_context) ==
  IF formatted_context = <<>> THEN prompt
  ELSE PromptWithContext(prompt, formatted_context)

create_prompt_with_context(prompt, chunks, include_metadata, max_tokens) ==
  PromptOrContext(prompt,
                  format_chunks(chunks, include_metadata, max_tokens).ret)

\* ------------------------------------------------------- ChunkRetriever
\* a failure of the store is not converted
get_chunksUnguarded(vector_storage, stored) ==
  IF vector_storage = "none" THEN <<>> ELSE stored

\* vector_storage is None after construction; a wired store answers with its
\* chunks, raises, or answers None (len(None) raises); the except branch
\* returns []
get_chunks(vector_storage, stored) ==
  IF vector_storage = "none" THEN <<>>
  ELSE IF vector_storage = "raises" THEN <<>>
  ELSE IF vector_storage = "returns_none" THEN <<>>
  ELSE stored

retrieve_chunks(vector_storage, stored) ==
  LET chunks == get_chunks(vector_storage, stored)
  IN  IF chunks = <<>> THEN <<>> ELSE chunks

\* --------------------------------------------------- InferenceController
\* def inject(self, query, session_id=None, project_id=None, max_chunks=10)
InjectParameters == {"query", "session_id", "project_id", "max_chunks"}
InjectRequired == {"query"}
DefaultMaxChunks == 10

\* injector.inject(prompt=prompt, project_id=project_id)
InjectCallKeywords == {"prompt", "project_id"}

\* a call by keywords binds when every keyword is a parameter and every
\* parameter without default is given; otherwise it raises TypeError
CallBinds(keywords, parameters, required) ==
  keywords \subseteq parameters /\ required \subseteq keywords

\* the methods of ContextFormatter and the one the controller calls
FormatterMethods == {"format_chunks", "create_prompt_with_context"}
FormatCallMethod == "format_context"

\* the empty-retrieval test never succeeds
NoChunksNever(chunks) == FALSE

\* if not chunks:
NoChunks(chunks) == chunks = <<>>

NoContextResult ==
  [response |-> M_no_context, context |-> <<>>, success |-> TRUE]

ErrorResult ==
  [response |-> M_error, context |-> <<>>, success |-> FALSE]

\* the status code is dropped from the response
BadStatusResultGeneric(status_code) == ErrorResult

BadStatusResult(status_code) ==
  [response |-> M_status \o Digits(status_code), context |-> <<>>,
   success |-> FALSE]

SuccessResult(llm_output, selected_chunks, formatted_context, role) ==
  [response |-> llm_output, context |-> selected_chunks, success |-> TRUE,
   metadata |-> [model |-> DEFAULT_INFERENCE_MODEL, role |-> role,
                 chunks_used |-> Len(selected_chunks),
                 context_length |-> Len(formatted_context),
                 response_length |-> Len(llm_output)]]

\* ------------------------------------------------------------ test data
MkChunk(id, file_path, ast_type, content, embedding, score) ==
  [id |-> id, file_path |-> file_path, ast_type |-> ast_type,
   content |-> content, embedding |-> embedding, score |-> score,
   similarity |-> Absent, ast_boost |-> Absent, file_boost |-> Absent]

\* chunks as the vector store hands them over: 1-5 and 9 of the data model
\* (9 is 1 with another ast_type) and three malformed ones (file_path None,
\* non-text content, non-numeric score)
Pool ==
  { MkChunk(1, Str(P_ctrl), Str(A_function), Str(T_def),
            Vec(FitDim(<<3, 4>>)), Absent),
    MkChunk(2, Str(P_front), Str(A_component), Str(T_abc), Absent, Absent),
    MkChunk(3, Str(P_docker), Str(A_config), Str(T_from), Absent,
            Num(Rat(1, 2))),
    MkChunk(4, Str(P_readme), Str(A_import), Str(T_ws), Absent, Absent),
    MkChunk(5, Str(P_svc), Str(A_class), Str(T_def),
            Vec(FitDim(<<3, 4>>)), Absent),
    MkChunk(6, None, Str(A_function), Str(T_abc), Absent, Absent),
    MkChunk(7, Str(P_ctrl), Str(A_method), Obj, Absent, Absent),
    MkChunk(8, Str(P_front), Str(A_comment), Str(T_one),
            Vec(FitDim(<<4, 3>>)), Str(<<"h", "i">>)),
    MkChunk(9, Str(P_ctrl), Str(A_import), Str(T_def),
            Vec(FitDim(<<3, 4>>)), Absent) }

\* a chunk of the data model: text content, a string file_path and a score
\* that is a number when present
WellFormed(c) ==
  /\ IsStr(c.content)
  /\ IsStr(c.file_path)
  /\ c.score = Absent \/ IsNum(c.score)

Texts == {T_q, T_def, T_abc, T_from, T_one}

EmbeddingBackends ==
  { [t \in Texts |->
       CASE t = T_q -> Reply200(<<3, 4>>)
         [] t = T_def -> Reply200(<<3, 4, 12>>)
         [] t = T_abc -> Reply200(<<4>>)
         [] t = T_from -> Reply200(<<4, 3>>)
         [] OTHER -> Reply200(<<0, 0>>)],
    [t \in Texts |->
       CASE t = T_q -> Reply200(<<3, 4>>)
         [] t = T_abc -> ReplyException
         [] t = T_from -> ReplyBadStatus
         [] OTHER -> Reply200(<<4, 3>>)],
    [t \in Texts |-> ReplyBadStatus] }

IdsOf(l) == [i \in 1..Len(l) |-> l[i].id]

\* lists of distinct chunks of at most n elements
ChunkLists(n) ==
  {l \in UNION {[1..k -> Pool] : k \in 0..n} :
     \A i, j \in 1..Len(l) : l[i].id = l[j].id => i = j}

Queries == {Str(T_q), Str(<<>>)}

\* ------------------------------------------------------------------ state
Roles ==
  {R_backend, R_frontend, R_devops, R_refactor, R_default, R_security,
   R_Backend, R_qa, R_DEFAULT, R_Refactor}

MaxChunksValues == {-1, 0, 1, 2, 10}

\* embBackend: behaviour of the embedding backend during the call
\* embedder:   a direct embed call, argument and outcome
\* scorer:     a direct call of a scorer method, arguments and outcome
\* injector:   a direct inject call, arguments and outcome
\* formatter:  a direct format_chunks call, arguments and outcome
\* ctl:        one generate_response call: wiring, position, locals
VARIABLES embBackend, embedder, scorer, injector, formatter, ctl, api, tok, two

vars == <<embBackend, embedder, scorer, injector, formatter, ctl, api, tok, two>>

Idle == [state |-> "idle"]

\* ------------------------------------------ score_chunks called directly
InitScore ==
  /\ api = Idle
  /\ tok = Idle
  /\ two = Idle
  /\ embBackend \in EmbeddingBackends
  /\ embedder = Idle
  /\ \E q \in Queries, l \in ChunkLists(MaxCands) :
       scorer = [state |-> "called", query |-> q, chunks_in |-> l]
  /\ injector = Idle
  /\ formatter = Idle
  /\ ctl = Idle

ScoreChunksCall ==
  /\ scorer.state = "called"
  /\ LET r == score_chunks(scorer.query, scorer.chunks_in, embBackend)
     IN  scorer' = [state |-> "returned", query |-> scorer.query,
                    chunks_in |-> scorer.chunks_in, ret |-> r.ret,
                    chunks |-> r.chunks, failed |-> r.failed,
                    embedded |-> r.embedded]
  /\ UNCHANGED <<embBackend, embedder, injector, formatter, ctl, api, tok, two>>

NextScore == ScoreChunksCall

SpecScore == InitScore /\ [][NextScore]_vars

\* ------------------------------------------------- embed called directly
\* the backend answers every text the same way: a vector of up to Dim + 1
\* elements, another status, or no answer
EmbedReplies ==
  {Reply200(v) : v \in UNION {[1..k -> 0..2] : k \in 0..(Dim + 1)}}
    \cup {ReplyBadStatus, ReplyException}

EmbedTexts == {None, Obj, Str(<<>>), Str(T_ws), Str(T_q), Str(T_one)}

InitEmbed ==
  /\ api = Idle
  /\ tok = Idle
  /\ two = Idle
  /\ \E r \in EmbedReplies, t \in EmbedTexts :
       /\ embBackend = [x \in Texts |-> r]
       /\ embedder = [state |-> "called", text |-> t, reply |-> r]
  /\ scorer = Idle
  /\ injector = Idle
  /\ formatter = Idle
  /\ ctl = Idle

EmbedCall ==
  /\ embedder.state = "called"
  /\ embedder' = [state |-> "returned", text |-> embedder.text,
                  reply |-> embedder.reply,
                  raised |-> EmbedRaises(embedder.text),
                  ret |-> embed(embedder.text, embBackend)]
  /\ UNCHANGED <<embBackend, scorer, injector, formatter, ctl, api, tok, two>>

NextEmbed == EmbedCall

SpecEmbed == InitEmbed /\ [][NextEmbed]_vars

\* ------------------------------------ _cosine_similarity called directly
CosineArguments ==
  {None} \cup
  {Vec(v) : v \in {<<>>, <<0>>, <<5>>, <<0, 0>>, <<3, 4>>, <<4, 3>>,
                   <<-3, 4>>, <<0, 0, 0>>, <<3, 4, 12>>}}

InitCosine ==
  /\ api = Idle
  /\ tok = Idle
  /\ two = Idle
  /\ embBackend \in EmbeddingBackends
  /\ embedder = Idle
  /\ \E v1 \in CosineArguments, v2 \in CosineArguments :
       scorer = [state |-> "cosine_called", v1 |-> v1, v2 |-> v2]
  /\ injector = Idle
  /\ formatter = Idle
  /\ ctl = Idle

CosineCall ==
  /\ scorer.state = "cosine_called"
  /\ scorer' = [state |-> "cosine_returned", v1 |-> scorer.v1,
                v2 |-> scorer.v2,
                ret |-> _cosine_similarity(scorer.v1, scorer.v2)]
  /\ UNCHANGED <<embBackend, embedder, injector, formatter, ctl, api, tok, two>>

NextCosine == CosineCall

SpecCosine == InitCosine /\ [][NextCosine]_vars

\* ------------------------------------------------ inject called directly
InitInject ==
  /\ api = Idle
  /\ tok = Idle
  /\ two = Idle
  /\ embBackend \in EmbeddingBackends
  /\ embedder = Idle
  /\ scorer = Idle
  /\ formatter = Idle
  /\ ctl = Idle
  /\ \E r \in Roles, l \in ChunkLists(MaxRetrieved), m \in MaxChunksValues :
       injector = [state |-> "called", role |-> r, query |-> Str(T_q),
                   all_chunks |-> l, max_chunks |-> m]

\* the injector after inject has returned r
InjectorAfter(call, r) ==
  [state |-> "returned", role |-> call.role, query |-> call.query,
   all_chunks |-> call.all_chunks, max_chunks |-> call.max_chunks,
   ret |-> r.ret, raised |-> r.raised, scoring |-> r.scoring]

InjectCall ==
  /\ injector.state = "called"
  /\ injector' = InjectorAfter(injector,
                    inject(injector.role, injector.query,
                           injector.all_chunks, injector.max_chunks,
                           embBackend))
  /\ UNCHANGED <<embBackend, embedder, scorer, formatter, ctl, api, tok, two>>

NextInject == InjectCall

SpecInject == InitInject /\ [][NextInject]_vars

\* ----------------------------------------- format_chunks called directly
InitFormat ==
  /\ api = Idle
  /\ tok = Idle
  /\ two = Idle
  /\ embBackend \in EmbeddingBackends
  /\ embedder = Idle
  /\ scorer = Idle
  /\ injector = Idle
  /\ ctl = Idle
  /\ \E l \in ChunkLists(MaxCands), m \in BOOLEAN, t \in 0..MaxBudget :
       formatter = [state |-> "called", chunks |-> l,
                    include_metadata |-> m, max_tokens |-> t]

\* the budget of the formatter is used up by the blocks it renders
StateAfterFormatSpent(chunks, max_tokens, included) ==
  [chunks |-> chunks,
   max_tokens |-> IF included < max_tokens THEN max_tokens - included ELSE 0]

\* the caller's list and self.max_tokens after format_chunks: the method
\* only reads them (chunk.get, self.max_tokens); total_tokens and
\* formatted_chunks are locals
StateAfterFormat(chunks, max_tokens, included) ==
  [chunks |-> chunks, max_tokens |-> max_tokens]

\* the formatter after format_chunks has returned r
FormatterAfter(f, r, after) ==
  [state |-> "returned", chunks |-> after.chunks,
   include_metadata |-> f.include_metadata,
   max_tokens |-> after.max_tokens,
   ret |-> r.ret, included |-> r.included, failed |-> r.failed,
   before |-> [chunks |-> f.chunks, max_tokens |-> f.max_tokens]]

FormatterAfterCall(f, r) ==
  FormatterAfter(f, r, StateAfterFormat(f.chunks, f.max_tokens, r.included))

FormatChunksCall ==
  /\ formatter.state = "called"
  /\ formatter' =
       FormatterAfterCall(formatter,
                          format_chunks(formatter.chunks,
                                        formatter.include_metadata,
                                        formatter.max_tokens))
  /\ UNCHANGED <<embBackend, embedder, scorer, injector, ctl, api, tok, two>>

\* the same call once more, on the list and the formatter as the first
\* call left them
FormatterAfterSecondCall(f, second) ==
  [state |-> "returned_again", first |-> f, second |-> second]

FormatChunksAgain ==
  /\ formatter.state = "returned"
  /\ formatter' =
       FormatterAfterSecondCall(
         formatter,
         FormatterAfterCall(formatter,
                            format_chunks(formatter.chunks,
                                          formatter.include_metadata,
                                          formatter.max_tokens)))
  /\ UNCHANGED <<embBackend, embedder, scorer, injector, ctl, api, tok, two>>

NextFormat == FormatChunksCall \/ FormatChunksAgain

SpecFormat == InitFormat /\ [][NextFormat]_vars

\* ----------------------------- create_prompt_with_context called directly
Prompts == {T_from, <<>>}

InitPrompt ==
  /\ api = Idle
  /\ tok = Idle
  /\ two = Idle
  /\ embBackend \in EmbeddingBackends
  /\ embedder = Idle
  /\ scorer = Idle
  /\ injector = Idle
  /\ ctl = Idle
  /\ \E p \in Prompts, l \in ChunkLists(MaxRetrieved), m \in BOOLEAN,
        t \in 0..MaxBudget :
       formatter = [state |-> "prompt_called", prompt |-> p, chunks |-> l,
                    include_metadata |-> m, max_tokens |-> t]

CreatePromptCall ==
  /\ formatter.state = "prompt_called"
  /\ formatter' = [state |-> "prompt_returned", prompt |-> formatter.prompt,
                   chunks |-> formatter.chunks,
                   include_metadata |-> formatter.include_metadata,
                   max_tokens |-> formatter.max_tokens,
                   ret |-> create_prompt_with_context(
                             formatter.prompt, formatter.chunks,
                             formatter.include_metadata,
                             formatter.max_tokens)]
  /\ UNCHANGED <<embBackend, embedder, scorer, injector, ctl, api, tok, two>>

NextPrompt == CreatePromptCall

SpecPrompt == InitPrompt /\ [][NextPrompt]_vars

\* -------------------------------------------------- generate_response
\* The retriever is the constructed one (no vector store), one with a vector
\* store wired in, or a test double; the injector class and the formatter
\* are the repository's or test doubles as in test_inference_controller.py.
RetrieverKinds == {"constructed", "store", "mock"}

\* what a wired vector store does when it is asked
StoreBehaviours == {"ok", "raises", "returns_none"}

\* every retriever has a vector store
VectorStorageOfWired(kind) ==
  IF kind = "mock" THEN {"double"} ELSE StoreBehaviours

\* ChunkRetriever(embedding_service=...) leaves vector_storage None
VectorStorageOf(kind) ==
  IF kind = "constructed" THEN {"none"}
  ELSE IF kind = "store" THEN StoreBehaviours
  ELSE {"double"}

StoreContents ==
  {l \in ChunkLists(2) : IdsOf(l) \in {<<>>, <<1>>, <<2, 1>>, <<3, 6>>}}

MockSelections ==
  {l \in ChunkLists(2) : IdsOf(l) \in {<<>>, <<5>>, <<1, 2>>}}

MockContexts == {<<>>, T_ctx}

\* generation backend: no answer (exception), a status other than 200, or
\* 200 with a body that is not JSON, has no "response", has a null
\* "response" or has a text
GenerationReplies ==
  {[kind |-> "exception", message |-> T_timeout],
   [kind |-> "exception", message |-> T_refused],
   [kind |-> "status", status_code |-> 404, body |-> Str(T_ctx)],
   [kind |-> "status", status_code |-> 500, body |-> Absent],
   [kind |-> "status", status_code |-> 500, body |-> Str(T_okpad)],
   [kind |-> "status", status_code |-> 200, body |-> Obj],
   [kind |-> "status", status_code |-> 200, body |-> Absent],
   [kind |-> "status", status_code |-> 200, body |-> None],
   [kind |-> "status", status_code |-> 200, body |-> Str(T_okpad)]}

NoCalls == [retriever |-> 0, injector |-> 0, formatter |-> 0, llm |-> 0]

InitCtl ==
  /\ api = Idle
  /\ tok = Idle
  /\ two = Idle
  /\ embBackend \in EmbeddingBackends
  /\ embedder = Idle
  /\ scorer = Idle
  /\ injector = Idle
  /\ formatter = Idle
  /\ \E k \in RetrieverKinds, st \in StoreContents,
        pi \in BOOLEAN, pf \in BOOLEAN, r \in {R_backend, R_DEFAULT},
        prompt \in {T_q, T_from} :
     \E vs \in VectorStorageOf(k) :
       ctl = [pc |-> "retrieve", retriever |-> k, stored |-> st,
              vector_storage |-> vs,
              patched_injector |-> pi, patched_formatter |-> pf,
              role |-> r, prompt |-> prompt, chunks |-> <<>>,
              selected_chunks |-> <<>>, formatted_context |-> <<>>,
              final_prompt |-> <<>>, reply |-> [kind |-> "none"],
              calls |-> NoCalls, raised |-> FALSE,
              result |-> [returned |-> FALSE]]

Return(c, result) ==
  [c EXCEPT !.pc = "done", !.result = [returned |-> TRUE, value |-> result]]

\* the exception leaves generate_response instead of being converted
ExceptPropagates(c) == [c EXCEPT !.pc = "done", !.raised = TRUE]

\* the text of the exception is put into the response
ExceptWithMessage(c) ==
  Return([c EXCEPT !.raised = TRUE],
         [response |-> IF c.reply.kind = "exception" THEN c.reply.message
                       ELSE M_error,
          context |-> <<>>, success |-> FALSE])

\* except Exception as e: ... return {...}
Except(c) == Return([c EXCEPT !.raised = TRUE], ErrorResult)

Called(c, who) == [c EXCEPT !.calls[who] = @ + 1]

\* Step 1 and the "if not chunks" fallback
RetrieveOutcomes(c0) ==
  LET c == Called(c0, "retriever")
  IN  (IF c0.retriever = "mock" THEN {Except(c)} ELSE {})
      \cup
      {LET chunks == IF c0.retriever = "mock" THEN c0.stored
                     ELSE retrieve_chunks(c0.vector_storage, c0.stored)
       IN  IF NoChunks(chunks)
           THEN Return([c EXCEPT !.chunks = chunks], NoContextResult)
           ELSE [c EXCEPT !.chunks = chunks, !.pc = "inject"]}

RetrieveStep ==
  /\ ctl.pc = "retrieve"
  /\ ctl' \in RetrieveOutcomes(ctl)
  /\ UNCHANGED <<embBackend, embedder, scorer, injector, formatter, api, tok, two>>

\* Step 2: RoleAwareContextInjector(role=...).inject(prompt=..., project_id=...)
InjectOutcomes(c0, backend) ==
  LET c == Called(c0, "injector")
  IN  IF c0.patched_injector
      THEN {Except(c)}
           \cup {[c EXCEPT !.selected_chunks = sel, !.pc = "format"] :
                   sel \in MockSelections}
      ELSE IF ~CallBinds(InjectCallKeywords, InjectParameters, InjectRequired)
      THEN {Except(c)}
      ELSE {[c EXCEPT
               !.selected_chunks =
                  inject(c0.role, Str(c0.prompt), c0.stored,
                         DefaultMaxChunks, backend).ret,
               !.pc = "format"]}

InjectStep ==
  /\ ctl.pc = "inject"
  /\ ctl' \in InjectOutcomes(ctl, embBackend)
  /\ UNCHANGED <<embBackend, embedder, scorer, injector, formatter, api, tok, two>>

\* Step 3: self.formatter.format_context(selected_chunks)
FormatOutcomes(c0) ==
  LET c == Called(c0, "formatter")
  IN  IF c0.patched_formatter
      THEN {Except(c)}
           \cup {[c EXCEPT !.formatted_context = text, !.pc = "generate"] :
                   text \in MockContexts}
      ELSE IF FormatCallMethod \notin FormatterMethods
      THEN {Except(c)}
      ELSE {[c EXCEPT
               !.formatted_context =
                  format_chunks(c0.selected_chunks, TRUE,
                                MAX_CONTEXT_TOKENS).ret,
               !.pc = "generate"]}

FormatStep ==
  /\ ctl.pc = "format"
  /\ ctl' \in FormatOutcomes(ctl)
  /\ UNCHANGED <<embBackend, embedder, scorer, injector, formatter, api, tok, two>>

\* the backend is called while the formatter has not been
GenerateReadyEarly == ctl.pc \in {"format", "generate"}

\* the statements of steps 4-5 follow the formatter call of step 3
GenerateReady == ctl.pc = "generate"

\* Steps 4-5 and the building of the result
GenerateOutcome(c0, reply) ==
  LET c == [Called(c0, "llm") EXCEPT
              !.final_prompt = c0.formatted_context
                                 \o <<"\n", "\n">> \o c0.prompt,
              !.reply = reply]
  IN  IF reply.kind = "exception" THEN Except(c)
      ELSE IF reply.status_code # 200
      THEN Return(c, BadStatusResult(reply.status_code))
      ELSE IF reply.body = Obj THEN Except(c)
      ELSE LET text == Get(reply.body, Str(<<>>))
           IN  IF ~IsStr(text) THEN Except(c)
               ELSE Return(c, SuccessResult(Strip(text[2]),
                                            c.selected_chunks,
                                            c.formatted_context,
                                            c.role))

GenerateOutcomes(c0) == {GenerateOutcome(c0, reply) : reply \in GenerationReplies}

GenerateStep ==
  /\ GenerateReady
  /\ ctl' \in GenerateOutcomes(ctl)
  /\ UNCHANGED <<embBackend, embedder, scorer, injector, formatter, api, tok, two>>

Next == RetrieveStep \/ InjectStep \/ FormatStep \/ GenerateStep

Spec == InitCtl /\ [][Next]_vars

\* ============================================================ properties
Done == ctl.pc = "done"

\* C1: generate_response always returns a result dictionary, and when an
\* exception occurred anywhere in it the result is success=false, context=[]
\* and the fixed response 'Error occurred during inference.'.
C1_NeverRaises ==
  Done => /\ ctl.result.returned
          /\ ctl.raised
               => ctl.result.value =
                    [response |-> M_error, context |-> <<>>,
                     success |-> FALSE]

\* a call in which the generation backend failed to answer
C1_Witness ==
  /\ Done
  /\ ctl.raised
  /\ ctl.reply.kind = "exception"
  /\ ctl.result.returned

RetrievedNothing ==
  Done /\ ctl.calls.retriever = 1 /\ ~ctl.raised /\ ctl.chunks = <<>>

\* C2: when retrieval returns an empty list the result is success=true,
\* context=[], response 'No relevant context found.', and neither the
\* injector, the formatter nor the generation backend was called.
C2_NoContextFallback ==
  RetrievedNothing
  => /\ ctl.result.value =
          [response |-> M_no_context, context |-> <<>>, success |-> TRUE]
     /\ ctl.calls.injector = 0
     /\ ctl.calls.formatter = 0
     /\ ctl.calls.llm = 0

\* an empty retrieval from a store that holds chunks but fails
C2_Witness ==
  /\ RetrievedNothing
  /\ ctl.retriever = "store"
  /\ ctl.stored # <<>>
  /\ ctl.result.value.success

\* the generation backend gave no answer other than 200 with a text
BackendAnswersOK ==
  \/ ctl.reply.kind = "none"
  \/ /\ ctl.reply.kind = "status"
     /\ ctl.reply.status_code = 200
     /\ IsStr(ctl.reply.body)

\* C3: with the repository's own injector and formatter, whenever retrieval
\* returns at least one chunk and the generation backend answers 200, the
\* result is success=true with the stripped backend text, the injector's
\* chunk list as context and chunks_used equal to its length.
C3_SuccessWithOwnComponents ==
  (/\ Done
   /\ ctl.chunks # <<>>
   /\ ~ctl.patched_injector
   /\ ~ctl.patched_formatter
   /\ BackendAnswersOK)
  => /\ ctl.result.returned
     /\ ctl.result.value.success
     /\ ctl.reply.kind = "status"
     /\ ctl.result.value.response = Strip(ctl.reply.body[2])
     /\ ctl.result.value.context = ctl.selected_chunks
     /\ ctl.result.value.metadata.chunks_used = Len(ctl.selected_chunks)

StatusText(status_code) ==
  CASE status_code = 404 -> <<"4", "0", "4">>
    [] status_code = 500 -> <<"5", "0", "0">>

BadStatus ==
  Done /\ ctl.reply.kind = "status" /\ ctl.reply.status_code # 200

\* C4: when the generation backend answers with a status other than 200 the
\* result is success=false, context=[] and a response carrying the status
\* code; the backend is invoked at most once per call.
C4_BadStatusNoRetry ==
  /\ ctl.calls.llm <= 1
  /\ BadStatus
       => /\ ctl.result.returned
          /\ ~ctl.result.value.success
          /\ ctl.result.value.context = <<>>
          /\ Contains(ctl.result.value.response,
                      StatusText(ctl.reply.status_code))
          /\ ~ctl.raised

\* a backend answering 500 after context was selected and formatted
C4_Witness ==
  /\ BadStatus
  /\ ctl.reply.status_code = 500
  /\ ctl.calls.llm = 1
  /\ ctl.selected_chunks # <<>>
  /\ ~ctl.result.value.success

PosIn(l, id) == CHOOSE i \in 1..Len(l) : l[i].id = id
AllWellFormed(l) == \A i \in 1..Len(l) : WellFormed(l[i])
ScorerFields == {"score", "similarity", "ast_boost", "file_boost"}

\* C8: for a non-empty list of chunks of the data model, score_chunks returns
\* a permutation of its input, ordered by non-increasing score, in which
\* chunks of equal score keep their relative input order.
C8_SortedStablePermutation ==
  (/\ scorer.state = "returned"
   /\ scorer.chunks_in # <<>>
   /\ AllWellFormed(scorer.chunks_in))
  => LET in  == scorer.chunks_in
         out == scorer.ret
     IN  /\ Len(out) = Len(in)
         /\ \A i \in 1..Len(in) : \E j \in 1..Len(out) : out[j].id = in[i].id
         /\ \A i, j \in 1..Len(out) : out[i].id = out[j].id => i = j
         /\ \A i \in 1..Len(out) : IsNum(out[i].score)
         /\ \A i, j \in 1..Len(out) :
              i < j => RLeq(out[j].score[2], out[i].score[2])
         /\ \A i, j \in 1..Len(out) :
              (i < j /\ out[i].score = out[j].score)
                => PosIn(in, out[i].id) < PosIn(in, out[j].id)

\* a scored list with a tie in which some chunk changed place
C8_Witness ==
  /\ scorer.state = "returned"
  /\ scorer.chunks_in # <<>>
  /\ AllWellFormed(scorer.chunks_in)
  /\ ~scorer.failed
  /\ \E i, j \in 1..Len(scorer.ret) :
       i < j /\ scorer.ret[i].score = scorer.ret[j].score
  /\ IdsOf(scorer.ret) # IdsOf(scorer.chunks_in)

\* C10: when an error occurs while scoring, score_chunks returns the original
\* list in its original order and no chunk carries a scorer-written field it
\* did not have on input.
C10_FailedScoringLeavesChunksUnscored ==
  (scorer.state = "returned" /\ scorer.failed)
  => /\ IdsOf(scorer.ret) = IdsOf(scorer.chunks_in)
     /\ \A i \in 1..Len(scorer.ret) : \A f \in ScorerFields :
          scorer.chunks_in[i][f] = Absent => scorer.ret[i][f] = Absent

\* the first n entries of l, all of them when there are fewer
FirstN(l, n) == SubSeq(l, 1, IF n < Len(l) THEN n ELSE Len(l))

InjectReturned == injector.state = "returned"

\* C5 as stated: for every candidate set, role and max_chunks value, inject
\* returns the first max_chunks entries of the scorer's output (none for a
\* count below one), hence never more than max_chunks chunks.
C5_Original ==
  (/\ InjectReturned
   /\ AllWellFormed(injector.all_chunks)
   /\ injector.scoring.called)
  => injector.ret = FirstN(injector.scoring.output, injector.max_chunks)

\* C5 amended: the same for every max_chunks value that is not negative.
C5_TruncatesToMaxChunks ==
  (/\ InjectReturned
   /\ AllWellFormed(injector.all_chunks)
   /\ injector.max_chunks >= 0)
  => /\ Len(injector.ret) <= injector.max_chunks
     /\ injector.scoring.called
          => injector.ret = FirstN(injector.scoring.output,
                                   injector.max_chunks)

\* a call whose scorer output is longer than max_chunks and not in
\* retrieval order
C5_Witness ==
  /\ InjectReturned
  /\ AllWellFormed(injector.all_chunks)
  /\ injector.max_chunks >= 1
  /\ injector.scoring.called
  /\ Len(injector.scoring.output) > injector.max_chunks
  /\ Len(injector.ret) = injector.max_chunks
  /\ IdsOf(injector.scoring.output) # IdsOf(injector.scoring.input)

RoleSubstrings(role) ==
  CASE role = R_backend -> {S_controller, S_service}
    [] role = R_frontend -> {S_frontend, S_jsx}
    [] role = R_devops -> {S_dockerfile}

SatisfiesRole(role, c) ==
  \E sub \in RoleSubstrings(role) : Contains(Lower(c.file_path[2]), sub)

StringPaths(l) == \A i \in 1..Len(l) : IsStr(l[i].file_path)

\* C6: for role backend, frontend or devops, when some candidate's
\* lower-cased file_path contains one of the role's substrings, the scorer is
\* handed exactly the candidates that do, in retrieval order, and inject
\* returns no chunk that does not.
C6_RoleFilterExact ==
  LET role == Lower(injector.role)
      all  == injector.all_chunks
  IN  (/\ InjectReturned
       /\ role \in {R_backend, R_frontend, R_devops}
       /\ StringPaths(all)
       /\ \E i \in 1..Len(all) : SatisfiesRole(role, all[i]))
      => /\ injector.scoring.called
         /\ Len(injector.scoring.input) > 0
         /\ \A i \in 1..Len(injector.scoring.input) :
              SatisfiesRole(role, injector.scoring.input[i])
         /\ \A i \in 1..Len(all) :
              SatisfiesRole(role, all[i])
                => \E j \in 1..Len(injector.scoring.input) :
                     injector.scoring.input[j].id = all[i].id
         /\ \A i \in 1..Len(injector.ret) :
              SatisfiesRole(role, injector.ret[i])

\* a backend call that kept one candidate and dropped another
C6_Witness ==
  /\ InjectReturned
  /\ Lower(injector.role) = R_backend
  /\ StringPaths(injector.all_chunks)
  /\ injector.scoring.called
  /\ Len(injector.scoring.input) > 0
  /\ Len(injector.scoring.input) < Len(injector.all_chunks)
  /\ Len(injector.ret) > 0
  /\ \A i \in 1..Len(injector.ret) :
       SatisfiesRole(R_backend, injector.ret[i])

\* C7: when the role filter keeps none of a non-empty candidate set, inject
\* scores the whole candidate set and returns what it returns for role
\* "default": the scorer's output on all candidates, truncated to max_chunks.
C7_EmptyFilterFallsBack ==
  (/\ InjectReturned
   /\ injector.all_chunks # <<>>
   /\ injector.scoring.called
   /\ injector.scoring.kept = <<>>)
  => /\ injector.scoring.input = injector.all_chunks
     /\ injector.ret =
          inject(R_default, injector.query, injector.all_chunks,
                 injector.max_chunks, embBackend).ret
     /\ (AllWellFormed(injector.all_chunks) /\ injector.max_chunks >= 0)
          => injector.ret =
               FirstN(score_chunks(injector.query, injector.all_chunks,
                                   embBackend).ret, injector.max_chunks)

\* a filtering role that matched nothing and still returned ranked chunks
C7_Witness ==
  /\ InjectReturned
  /\ Lower(injector.role) \in {R_backend, R_frontend, R_devops, R_security}
  /\ AllWellFormed(injector.all_chunks)
  /\ injector.scoring.called
  /\ injector.scoring.kept = <<>>
  /\ Len(injector.ret) >= 2
  /\ IdsOf(injector.ret) # IdsOf(SubSeq(injector.all_chunks, 1,
                                         Len(injector.ret)))

RECURSIVE CumulativeWords(_, _)
CumulativeWords(l, k) ==
  IF k = 0 THEN 0
  ELSE CumulativeWords(l, k - 1) + WordCount(l[k].content[2])

\* the characters the first k chunks take when rendered without metadata
RECURSIVE CumulativeLength(_, _)
CumulativeLength(l, k) ==
  IF k = 0 THEN 0
  ELSE CumulativeLength(l, k - 1) + Len(F_open) + Len(l[k].file_path[2])
         + Len(F_end) + Len(l[k].content[2]) + 1

\* the length of the longest prefix of l within the budget
LongestPrefix(l, budget) ==
  CHOOSE k \in 0..Len(l) :
    /\ CumulativeWords(l, k) <= budget
    /\ \A j \in (k + 1)..Len(l) : CumulativeWords(l, j) > budget

FormatReturned == formatter.state = "returned"

\* C9: format_chunks renders exactly the longest prefix of its input whose
\* cumulative word count is at most max_tokens; a chunk reaching the budget
\* exactly is included, the first overflowing chunk and all behind it are
\* left out, and every included content appears whole.
C9_BudgetPrefix ==
  (FormatReturned /\ AllWellFormed(formatter.chunks))
  => LET l == formatter.chunks
         k == LongestPrefix(l, formatter.max_tokens)
         blocks == [i \in 1..k |->
                      formatted_chunk(l[i], formatter.include_metadata)]
     IN  /\ formatter.included = k
         /\ formatter.ret = Join(blocks, S_nl)
         /\ \A i \in 1..k : Contains(formatter.ret, l[i].content[2])
         /\ (k > 0 /\ ~formatter.include_metadata)
              => Len(formatter.ret) =
                   (k - 1) + CumulativeLength(l, k)

\* a budget met exactly by the included prefix, with a later chunk that is
\* left out although it alone would still fit
C9_Witness ==
  /\ FormatReturned
  /\ AllWellFormed(formatter.chunks)
  /\ formatter.included = 2
  /\ Len(formatter.chunks) = 3
  /\ CumulativeWords(formatter.chunks, 2) = formatter.max_tokens
  /\ WordCount(formatter.chunks[3].content[2]) <= formatter.max_tokens

\* --------------------------------------------------------------- C11
\* the boost tables as the specification states them, in hundredths
StatedAstBoost(ast_type) ==
  IF ast_type \in {Str(A_function), Str(A_class), Str(A_method)} THEN 15
  ELSE IF ast_type \in {Str(A_variable), Str(A_constant), Str(A_property)}
  THEN 5
  ELSE IF ast_type \in {Str(A_import), Str(A_comment)} THEN -10
  ELSE 0

StatedFileBoost(ext) ==
  IF ext \in {X_py, X_js, X_ts, S_jsx, X_tsx} THEN 10
  ELSE IF ext \in {X_json, X_yaml, X_yml} THEN 5
  ELSE IF ext \in {X_md, X_txt} THEN -5
  ELSE 0

\* the chunks the scoring loop has finished with
Scored(c) == c.similarity # Absent

SameButAstType(c, d) ==
  c.embedding = d.embedding /\ c.file_path = d.file_path

AllZero(v) == v # None /\ \A i \in 1..Len(v[2]) : v[2][i] = 0

DifferentLengths(v1, v2) ==
  v1 # None /\ v2 # None /\ Len(v1[2]) # Len(v2[2])

\* C12: _cosine_similarity returns exactly 0 whenever an argument is None or
\* an all-zero vector or the lengths differ, and its result is never the
\* outcome of a division by a zero norm.
C12_DegenerateSimilarityIsZero ==
  scorer.state = "cosine_returned" =>
    /\ (\/ scorer.v1 = None \/ scorer.v2 = None
        \/ AllZero(scorer.v1) \/ AllZero(scorer.v2)
        \/ DifferentLengths(scorer.v1, scorer.v2)) => scorer.ret = Zero
    /\ scorer.ret # NaN

C12_Witness ==
  /\ scorer.state = "cosine_returned"
  /\ scorer.v1 = Vec(<<3, 4>>)
  /\ scorer.v2 = Vec(Zeros(2))
  /\ scorer.ret = Zero

\* --------------------------------------------------------------- C13
Blank(text) == text = None \/ \A i \in 1..Len(text[2]) : IsSpace(text[2][i])

\* C13: for a text (a str, or None) embed does not raise and returns Dim
\* elements: zeros for blank text, a non-200 answer or a backend exception,
\* otherwise the backend vector cut to Dim or right-padded with zeros.
C13_EmbedReturnsDimElements ==
  (/\ embedder.state = "returned"
   /\ (IsStr(embedder.text) \/ embedder.text = None)) =>
    /\ ~embedder.raised
    /\ Len(embedder.ret) = Dim
    /\ (Blank(embedder.text) \/ embedder.reply.kind # "ok")
         => \A i \in 1..Dim : embedder.ret[i] = 0
    /\ (~Blank(embedder.text) /\ embedder.reply.kind = "ok")
         => \A i \in 1..Dim :
              embedder.ret[i] =
                IF i <= Len(embedder.reply.embedding)
                THEN embedder.reply.embedding[i] ELSE 0

C13_Witness ==
  /\ embedder.state = "returned"
  /\ embedder.text = Str(T_q)
  /\ embedder.reply.kind = "ok"
  /\ Len(embedder.reply.embedding) = 1
  /\ embedder.reply.embedding[1] = 2
  /\ embedder.ret[1] = 2
  /\ embedder.ret[Dim] = 0

\* --------------------------------------------------------------- C14
RetrievalUnavailable ==
  \/ ctl.vector_storage \in {"none", "raises", "returns_none"}
  \/ ctl.stored = <<>>

\* C14: the repository's retriever never raises; when its vector store is
\* not configured, raises or returns nothing it returns the empty list and
\* generate_response answers with the success=true no-context fallback.
C14_RetrievalFailureIsNoContext ==
  (ctl.retriever # "mock" /\ ctl.calls.retriever = 1) =>
    /\ ctl.calls.injector = 0 => ~ctl.raised
    /\ RetrievalUnavailable =>
         /\ ctl.chunks = <<>>
         /\ ~ctl.raised
         /\ Done
         /\ ctl.result.returned
         /\ ctl.result.value = NoContextResult
         /\ ctl.result.value.success

C14_Witness ==
  /\ Done
  /\ ctl.retriever = "store"
  /\ ctl.vector_storage = "raises"
  /\ ctl.stored # <<>>
  /\ ctl.result.value = NoContextResult

\* --------------------------------------------------------------- C15
\* the backend is asked for the chunk's embedding and does not deliver it
EmbeddingFails(c, backend) ==
  /\ c.embedding \in {Absent, None}
  /\ IsStr(c.content)
  /\ ~Blank(c.content)
  /\ backend[c.content[2]].kind # "ok"

\* the same backend, answering text t
Repaired(backend, t) == [backend EXCEPT ![t] = Reply200(<<3, 4>>)]

\* C15: when the embedding backend fails for a chunk of a list of data-model
\* chunks, score_chunks does not take its except branch, that chunk gets
\* similarity 0 and score = ast_boost + file_boost, every chunk with another
\* text is scored as with a backend that answers, and the result is ordered
\* by non-increasing score.
C15_EmbeddingFailureScoresZero ==
  (/\ scorer.state = "returned"
   /\ AllWellFormed(scorer.chunks_in)
   /\ \E i \in 1..Len(scorer.chunks_in) :
        EmbeddingFails(scorer.chunks_in[i], embBackend))
  => /\ ~scorer.failed
     /\ \A i \in 1..Len(scorer.chunks_in) :
          EmbeddingFails(scorer.chunks_in[i], embBackend) =>
            LET c == scorer.chunks[i]
            IN  /\ c.similarity = Num(Zero)
                /\ c.score = Num(RAdd(c.ast_boost[2], c.file_boost[2]))
     /\ \A t \in Texts :
          (embBackend[t].kind # "ok" /\ Str(t) # scorer.query) =>
            LET other == score_chunks(scorer.query, scorer.chunks_in,
                                      Repaired(embBackend, t)).chunks
            IN  \A i \in 1..Len(scorer.chunks_in) :
                  scorer.chunks_in[i].content # Str(t)
                    => scorer.chunks[i] = other[i]
     /\ \A i, j \in 1..Len(scorer.ret) :
          i < j => RLeq(scorer.ret[j].score[2], scorer.ret[i].score[2])

C15_Witness ==
  /\ scorer.state = "returned"
  /\ ~scorer.failed
  /\ scorer.query = Str(T_q)
  /\ Len(scorer.ret) = 3
  /\ \E i, j \in 1..3 :
       /\ i < j
       /\ EmbeddingFails(scorer.chunks_in[i], embBackend)
       /\ scorer.chunks[i].similarity = Num(Zero)
       /\ ~EmbeddingFails(scorer.chunks_in[j], embBackend)
       /\ scorer.chunks[j].similarity # Num(Zero)
       /\ scorer.ret[1].id = scorer.chunks_in[j].id

\* --------------------------------------------------------------- C16
\* C16: in one generate_response call every stage is entered at most once
\* and only after the preceding one has returned: the injector (role filter,
\* scoring, truncation) after a retrieval that returned chunks, the formatter
\* after the injector, the generation backend after the formatter and with
\* the prompt built from the formatted context; a stage that raises ends
\* the call.
C16_StagesInPipelineOrder ==
  /\ \A who \in DOMAIN ctl.calls : ctl.calls[who] <= 1
  /\ ctl.calls.injector = 1 =>
       ctl.calls.retriever = 1 /\ ctl.chunks # <<>>
  /\ ctl.calls.formatter = 1 => ctl.calls.injector = 1
  /\ ctl.calls.llm = 1 =>
       /\ ctl.calls.formatter = 1
       /\ ctl.final_prompt =
            ctl.formatted_context \o <<"\n", "\n">> \o ctl.prompt
  /\ ctl.pc = "retrieve" => ctl.calls = NoCalls
  /\ ctl.pc = "inject" =>
       ctl.calls.retriever = 1 /\ ctl.calls.injector = 0
  /\ ctl.pc = "format" =>
       ctl.calls.injector = 1 /\ ctl.calls.formatter = 0
  /\ ctl.pc = "generate" =>
       ctl.calls.formatter = 1 /\ ctl.calls.llm = 0
  /\ ctl.raised => Done

C16_Witness ==
  /\ Done
  /\ ctl.calls = [retriever |-> 1, injector |-> 1, formatter |-> 1, llm |-> 1]
  /\ ctl.formatted_context = T_ctx
  /\ ctl.final_prompt = T_ctx \o <<"\n", "\n">> \o T_q
  /\ ctl.result.value.success

\* --------------------------------------------------------------- C17
IdentityRole(role) == Lower(role) \in {R_refactor, R_default}

Min(a, b) == IF a < b THEN a ELSE b

\* C17 as stated: for role refactor or default in any letter case the scorer
\* receives every candidate in retrieval order and inject returns
\* min(max_chunks, number of candidates) chunks.
C17_Original ==
  (/\ InjectReturned
   /\ IdentityRole(injector.role)
   /\ injector.all_chunks # <<>>
   /\ AllWellFormed(injector.all_chunks))
  => /\ injector.scoring.called
     /\ injector.scoring.input = injector.all_chunks
     /\ Len(injector.ret) =
          Min(injector.max_chunks, Len(injector.all_chunks))

\* C17 amended: the same for every max_chunks value that is not negative.
C17_IdentityForRefactorAndDefault ==
  (/\ InjectReturned
   /\ IdentityRole(injector.role)
   /\ injector.all_chunks # <<>>
   /\ AllWellFormed(injector.all_chunks)
   /\ injector.max_chunks >= 0)
  => /\ injector.scoring.called
     /\ injector.scoring.kept = injector.all_chunks
     /\ injector.scoring.input = injector.all_chunks
     /\ Len(injector.ret) =
          Min(injector.max_chunks, Len(injector.all_chunks))

\* an upper-case role, a candidate the backend filter would drop, and a
\* result cut to max_chunks
C17_Witness ==
  /\ InjectReturned
  /\ injector.role \in {R_DEFAULT, R_Refactor}
  /\ IdsOf(injector.all_chunks) = <<4, 1>>
  /\ injector.scoring.input = injector.all_chunks
  /\ injector.max_chunks = 1
  /\ IdsOf(injector.ret) = <<1>>

\* --------------------------------------------------------------- C18
DedicatedRoles == {R_backend, R_frontend, R_devops, R_refactor, R_default}

\* the generic matcher as the specification words it
GenericMatch(role, c) ==
  \/ \E p \in role_file_patterns[role] : Contains(Lower(c.file_path[2]), p)
  \/ \E k \in role_keywords[role] : Contains(Lower(c.content[2]), k)

\* C18: for a role outside the five dedicated ones and candidates of the
\* data model, the role filter keeps, in retrieval order, exactly the
\* candidates whose lower-cased file_path contains one of the role's file
\* patterns or whose lower-cased content contains one of its keywords when
\* the role is configured, and every candidate when it is not.
C18_GenericRoleFilter ==
  LET role == Lower(injector.role)
      all  == injector.all_chunks
      kept == injector.scoring.kept
      Matches(c) == GenericMatch(role, c)
  IN  (/\ InjectReturned
       /\ role \notin DedicatedRoles
       /\ all # <<>>
       /\ AllWellFormed(all))
      => /\ injector.scoring.called
         /\ role \in DOMAIN role_keywords =>
              /\ kept = SelectSeq(all, Matches)
              /\ \A i \in 1..Len(all) :
                   (\E j \in 1..Len(kept) : kept[j].id = all[i].id)
                     <=> Matches(all[i])
         /\ role \notin DOMAIN role_keywords => kept = all

\* the security role keeps a chunk for a keyword of its content and drops
\* one that matches neither list
C18_Witness ==
  /\ InjectReturned
  /\ injector.role = R_security
  /\ IdsOf(injector.all_chunks) = <<1, 3>>
  /\ injector.scoring.called
  /\ IdsOf(injector.scoring.kept) = <<3>>
  /\ Contains(injector.all_chunks[2].content[2], <<"j", "w", "t">>)

FollowedBy(s, a, b) ==
  \E i \in 0..(Len(s) - Len(a)) :
     /\ SubSeq(s, i + 1, i + Len(a)) = a
     /\ Contains(SubSeq(s, i + Len(a) + 1, Len(s)), b)

\* no chunk fits: the first content has more words than the budget
NothingFits(chunks, max_tokens) ==
  /\ chunks # <<>>
  /\ IsStr(chunks[1].content)
  /\ WordCount(chunks[1].content[2]) > max_tokens

\* C19: create_prompt_with_context returns the prompt itself when the
\* formatted body is empty (no chunks, or none within the budget) and
\* otherwise a text holding the formatted body and the prompt behind it.
C19_PromptUnchangedWithoutContext ==
  formatter.state = "prompt_returned" =>
    LET body == format_chunks(formatter.chunks, formatter.include_metadata,
                              formatter.max_tokens).ret
    IN  /\ (\/ formatter.chunks = <<>>
            \/ NothingFits(formatter.chunks, formatter.max_tokens))
             => body = <<>>
        /\ body = <<>> => formatter.ret = formatter.prompt
        /\ body # <<>> =>
             /\ formatter.ret # formatter.prompt
             /\ FollowedBy(formatter.ret, body, formatter.prompt)

C19_Witness ==
  /\ formatter.state = "prompt_returned"
  /\ formatter.prompt = T_from
  /\ IdsOf(formatter.chunks) = <<1, 2>>
  /\ formatter.max_tokens = 2
  /\ FollowedBy(formatter.ret, T_def, T_from)
  /\ ~Contains(formatter.ret, T_abc)

\* ========================================================= inference_api.py
\* [:500] and the test len(...) > 500 of format_chunk_for_output
OutputContentChars == 500

\* '...'
Ellipsis == <<".", ".", ".">>

\* s[:n] for n >= 0
Prefix(s, n) == SubSeq(s, 1, IF n < Len(s) THEN n ELSE Len(s))

\* the cut without the marker behind it
ContentForOutputCutOnly(content) == Prefix(content, OutputContentChars)

\* chunk.get('content', '')[:500] + ('...' if len(...) > 500 else '')
ContentForOutput(content) ==
  Prefix(content, OutputContentChars)
    \o (IF Len(content) > OutputContentChars THEN Ellipsis ELSE <<>>)

\* slicing or len() of a content that is no text raises TypeError
OutputRaises(chunk) == ~IsStr(Get(chunk.content, Str(<<>>)))

format_chunk_for_output(chunk) ==
  [file_path |-> Get(chunk.file_path, Str(<<>>)),
   ast_type |-> Get(chunk.ast_type, Str(<<>>)),
   chunk_type |-> Str(<<>>),
   name |-> Str(<<>>),
   score |-> Get(chunk.score, Num(Zero)),
   content |-> Str(ContentForOutput(Get(chunk.content, Str(<<>>))[2]))]

\* Python truth of an option value: None, 0 and 0.0 are false
Truthy(x) == x # None /\ ~(IsNum(x) /\ x[2].n = 0)

\* the test "is not None"
Given(x) == x # None

DEFAULT_TEMPERATURE == Rat(7, 10)
DEFAULT_MAX_TOKENS == 1000

\* response_kwargs: the options of generate_response that main passes
response_kwargs(args) ==
  [temperature |-> IF Truthy(args.temperature) THEN args.temperature
                   ELSE Absent,
   max_tokens |-> IF Truthy(args.max_tokens) THEN args.max_tokens
                  ELSE Absent]

\* the values generate_response binds to its parameters
BoundParameters(kwargs) ==
  [temperature |-> Get(kwargs.temperature, Num(DEFAULT_TEMPERATURE)),
   max_tokens |-> Get(kwargs.max_tokens, Num(Rat(DEFAULT_MAX_TOKENS, 1)))]

\* main after generate_response returned result: the JSON printed and the
\* exit code
MainOutput(result) ==
  IF \E i \in 1..Len(result.context) : OutputRaises(result.context[i])
  THEN [exit |-> 1, json |-> [success |-> FALSE]]
  ELSE [exit |-> 0,
        json |-> [success |-> result.success,
                  response |-> result.response,
                  context |-> [i \in 1..Len(result.context) |->
                                 format_chunk_for_output(result.context[i])],
                  chunks_retrieved |-> Len(result.context)]]

\* ---------------------------------------------------------- command lines
DigitOf(i) == DigitChars[(i % 10) + 1]

\* a text of n characters, no two neighbours alike
TextOfLength(n) == [i \in 1..n |-> DigitOf(i)]

ContentLengths == {0, 1, 499, 500, 501, 503, 504}

LongChunk(n) ==
  MkChunk(n, Str(P_ctrl), Str(A_function), Str(TextOfLength(n)), Absent,
          Num(Rat(1, 2)))

\* what the controller hands back: no context, one chunk of each length,
\* two chunks, or a chunk whose content is no text
ApiContexts ==
  {<<>>} \cup {<<LongChunk(n)>> : n \in ContentLengths}
         \cup {<<LongChunk(501), LongChunk(500)>>}
         \cup {<<LongChunk(1), MkChunk(7, Str(P_ctrl), Str(A_method), None,
                                       Absent, Absent)>>}

\* --temperature (type=float) and --max_tokens (type=int); None when absent
TemperatureOptions == {None, Num(Zero), Num(Rat(7, 10)), Num(Rat(3, 2))}
MaxTokensOptions == {None, Num(Zero), Num(Rat(1, 1)), Num(Rat(2000, 1))}

InitApi ==
  /\ embBackend \in EmbeddingBackends
  /\ embedder = Idle
  /\ scorer = Idle
  /\ injector = Idle
  /\ formatter = Idle
  /\ ctl = Idle
  /\ tok = Idle
  /\ two = Idle
  /\ \E t \in TemperatureOptions, mt \in MaxTokensOptions,
        context \in ApiContexts :
       api = [state |-> "parsed",
              args |-> [temperature |-> t, max_tokens |-> mt],
              result |-> IF context = <<>> THEN NoContextResult
                         ELSE SuccessResult(T_okpad, context, T_ctx,
                                            R_DEFAULT)]

ApiAfterMain(a, kwargs) ==
  [state |-> "exited", args |-> a.args, result |-> a.result,
   kwargs |-> kwargs, bound |-> BoundParameters(kwargs),
   output |-> MainOutput(a.result)]

\* main(): parse_arguments, generate_response(**response_kwargs), the
\* formatting of the context and print(json.dumps(...))
Main ==
  /\ api.state = "parsed"
  /\ api' = ApiAfterMain(api, response_kwargs(api.args))
  /\ UNCHANGED <<embBackend, embedder, scorer, injector, formatter, ctl, tok, two>>

NextApi == Main

SpecApi == InitApi /\ [][NextApi]_vars

\* C21: in the JSON printed by the API script, the content of every context
\* chunk is the chunk's text when that has at most 500 characters and
\* otherwise its first 500 characters followed by '...'; it never has more
\* than 503 characters.
C21_ContentCutAt500 ==
  (api.state = "exited" /\ api.output.exit = 0) =>
    \A i \in 1..Len(api.result.context) :
      LET original == api.result.context[i].content[2]
          printed == api.output.json.context[i].content[2]
      IN  /\ Len(api.output.json.context) = Len(api.result.context)
          /\ Len(original) <= 500 => printed = original
          /\ Len(original) > 500 =>
               printed = SubSeq(original, 1, 500) \o <<".", ".", ".">>
          /\ Len(printed) <= 503

C21_Witness ==
  /\ api.state = "exited"
  /\ api.output.exit = 0
  /\ Len(api.result.context) = 2
  /\ Len(api.result.context[1].content[2]) = 501
  /\ Len(api.output.json.context[1].content[2]) = 503
  /\ api.output.json.context[2].content = api.result.context[2].content
  /\ Len(api.output.json.context[2].content[2]) = 500

\* C30 as stated: every --temperature and --max_tokens value given on the
\* command line, 0 included, is the value generate_response receives, and
\* the defaults are used only when the option is absent.
C30_OptionsPassedUnchanged ==
  api.state = "exited" =>
    /\ Given(api.args.temperature) =>
         api.bound.temperature = api.args.temperature
    /\ Given(api.args.max_tokens) =>
         api.bound.max_tokens = api.args.max_tokens
    /\ api.kwargs.temperature = Absent => ~Given(api.args.temperature)
    /\ api.kwargs.max_tokens = Absent => ~Given(api.args.max_tokens)

\* ============================== two calls on the same InferenceController
\* Both calls share the controller (its retriever, scorer, formatter, model
\* and endpoint, none of which generate_response assigns); the arguments and
\* the locals chunks, selected_chunks, formatted_context, final_prompt and
\* response live in the frame of each call, and the chunk lists are values:
\* each call has its own chunk objects.

\* the locals are kept in one place for both calls
FrameOfShared(t, p) == t.frames[1]

\* the frame (arguments and locals) a call works on
FrameOf(t, p) == t.frames[p]

\* the next statement group of generate_response on a frame
StepOutcomes(c, backend) ==
  CASE c.pc = "retrieve" -> RetrieveOutcomes(c)
    [] c.pc = "inject" -> InjectOutcomes(c, backend)
    [] c.pc = "format" -> FormatOutcomes(c)
    [] c.pc = "generate" -> GenerateOutcomes(c)
    [] OTHER -> {}

\* the frame at the call
NewFrame(controller, role, prompt) ==
  [pc |-> "retrieve", retriever |-> controller.retriever,
   stored |-> controller.stored,
   vector_storage |-> controller.vector_storage,
   patched_injector |-> controller.patched_injector,
   patched_formatter |-> controller.patched_formatter,
   role |-> role, prompt |-> prompt, chunks |-> <<>>,
   selected_chunks |-> <<>>, formatted_context |-> <<>>,
   final_prompt |-> <<>>, reply |-> [kind |-> "none"],
   calls |-> NoCalls, raised |-> FALSE, result |-> [returned |-> FALSE]]

TwoStores == {l \in StoreContents : Len(l) <= 1}

\* the role and prompt of the first and of the second call
TwoArguments ==
  {<<[role |-> R_backend, prompt |-> T_q],
     [role |-> R_DEFAULT, prompt |-> T_from]>>,
   <<[role |-> R_DEFAULT, prompt |-> T_q],
     [role |-> R_DEFAULT, prompt |-> T_q]>>}

InitTwo ==
  /\ embBackend = CHOOSE b \in EmbeddingBackends : TRUE
  /\ embedder = Idle
  /\ scorer = Idle
  /\ injector = Idle
  /\ formatter = Idle
  /\ ctl = Idle
  /\ api = Idle
  /\ tok = Idle
  /\ \E k \in RetrieverKinds, st \in TwoStores, pi \in BOOLEAN,
        pf \in BOOLEAN, a \in TwoArguments :
     \E vs \in VectorStorageOf(k) :
       LET controller == [retriever |-> k, stored |-> st,
                          vector_storage |-> vs, patched_injector |-> pi,
                          patched_formatter |-> pf]
       IN  two = [controller |-> controller, interleaved |-> FALSE,
                  frames |-> [p \in 1..2 |->
                                NewFrame(controller, a[p].role, a[p].prompt)],
                  inputs |-> [p \in 1..2 |->
                                NewFrame(controller, a[p].role, a[p].prompt)]]

\* the other call has begun and has not returned
MidCall(c) == c.pc \notin {"retrieve", "done"}

\* one statement group of call p, between any two of the other call
CallStep(p) ==
  /\ FrameOf(two, p).pc # "done"
  /\ \E x \in StepOutcomes(FrameOf(two, p), embBackend) :
       two' = [two EXCEPT !.frames[p] = x,
                          !.interleaved = @ \/ MidCall(two.frames[3 - p])]
  /\ UNCHANGED <<embBackend, embedder, scorer, injector, formatter, ctl, api, tok>>

FirstCallStep == CallStep(1)

SecondCallStep == CallStep(2)

NextTwo == FirstCallStep \/ SecondCallStep

SpecTwo == InitTwo /\ [][NextTwo]_vars

\* every frame a call can end with when it runs from frame c on its own
RECURSIVE Runs(_, _)
Runs(c, backend) ==
  IF c.pc = "done" THEN {c}
  ELSE UNION {Runs(x, backend) : x \in StepOutcomes(c, backend)}

\* C22: under every interleaving of two generate_response calls on the same
\* controller, each call keeps its own arguments and returns a result, with
\* locals and collaborator calls, that it can return when it runs alone on
\* the same controller with the same arguments; the controller is not
\* written (each call has its own chunk objects).
C22_CallsDoNotInterfere ==
  \A p \in 1..2 :
    /\ two.frames[p].role = two.inputs[p].role
    /\ two.frames[p].prompt = two.inputs[p].prompt
    /\ two.frames[p].retriever = two.controller.retriever
    /\ two.frames[p].stored = two.controller.stored
    /\ two.inputs[p].pc = "retrieve"
    /\ two.frames[p].pc = "done" =>
         two.frames[p] \in Runs(two.inputs[p], embBackend)

C22_Witness ==
  /\ two.interleaved
  /\ \A p \in 1..2 :
       /\ two.frames[p].pc = "done"
       /\ two.frames[p].result.value.success
       /\ two.frames[p].calls.llm = 1
  /\ two.frames[1].result.value.metadata.role = R_backend
  /\ two.frames[2].result.value.metadata.role = R_DEFAULT
  /\ two.frames[1].final_prompt # two.frames[2].final_prompt

\* the failure dictionaries of generate_response: one per backend status
\* code, and one for everything else
FailureOfStatus(status_code) ==
  [response |-> <<"E", "r", "r", "o", "r", " ", "g", "e", "n", "e", "r", "a",
                  "t", "i", "n", "g", " ", "r", "e", "s", "p", "o", "n", "s",
                  "e", ":", " ">> \o Digits(status_code),
   context |-> <<>>, success |-> FALSE]

FailureOfException ==
  [response |-> <<"E", "r", "r", "o", "r", " ", "o", "c", "c", "u", "r", "r",
                  "e", "d", " ", "d", "u", "r", "i", "n", "g", " ", "i", "n",
                  "f", "e", "r", "e", "n", "c", "e", ".">>,
   context |-> <<>>, success |-> FALSE]

\* C23: a failure result of generate_response is determined by whether the
\* backend answered with a status other than 200 and by that status code
\* alone: the exception message, the backend's body, the prompt and the
\* chunk contents do not enter it, so two failing runs that differ only in
\* those return identical results.
C23_FailureRevealsOnlyStatus ==
  (Done /\ ctl.result.returned /\ ~ctl.result.value.success) =>
    ctl.result.value =
      IF /\ ~ctl.raised
         /\ ctl.reply.kind = "status"
         /\ ctl.reply.status_code # 200
      THEN FailureOfStatus(ctl.reply.status_code)
      ELSE FailureOfException

C23_Witness ==
  /\ Done
  /\ ctl.raised
  /\ ctl.reply.kind = "exception"
  /\ ctl.reply.message = T_refused
  /\ ctl.prompt = T_from
  /\ IdsOf(ctl.selected_chunks) = <<1, 2>>
  /\ ctl.result.value = FailureOfException

\* the contents of the chunks of l that come without an embedding, in order
ContentsToEmbed(l) ==
  LET missing == SelectSeq(l, LAMBDA c : c.embedding \in {Absent, None})
  IN  [i \in 1..Len(missing) |-> missing[i].content]

C25_CandidatesGiveChunks ==
  (/\ injector.state = "returned"
   /\ injector.all_chunks # <<>>
   /\ injector.max_chunks >= 1)
  => injector.ret # <<>>

\* C26: a controller built by its constructor alone (its retriever has no
\* vector store) answers every generate_response call, for every prompt and
\* role, with the success=true no-context dictionary; the injector with its
\* scorer (the only caller of the embedding backend), the formatter and the
\* generation backend are never called.
C26_ConstructedControllerFallsBack ==
  ctl.retriever = "constructed" =>
    /\ ctl.calls.injector = 0
    /\ ctl.calls.formatter = 0
    /\ ctl.calls.llm = 0
    /\ ctl.pc \in {"retrieve", "done"}
    /\ Done =>
         /\ ctl.result.returned
         /\ ~ctl.raised
         /\ ctl.result.value =
              [response |-> <<"N", "o", " ", "r", "e", "l", "e", "v", "a",
                              "n", "t", " ", "c", "o", "n", "t", "e", "x",
                              "t", " ", "f", "o", "u", "n", "d", ".">>,
               context |-> <<>>, success |-> TRUE]

C26_Witness ==
  /\ Done
  /\ ctl.retriever = "constructed"
  /\ IdsOf(ctl.stored) = <<2, 1>>
  /\ ctl.role = R_backend
  /\ ctl.prompt = T_from
  /\ ctl.calls = [retriever |-> 1, injector |-> 0, formatter |-> 0, llm |-> 0]
  /\ ctl.result.value.success
  /\ ctl.result.value.context = <<>>

RECURSIVE TotalWords(_)
TotalWords(l) ==
  IF l = <<>> THEN 0 ELSE WordCount(Head(l).content[2]) + TotalWords(Tail(l))

\* the formatting loop certainly meets an error: the first content is no
\* text, or the metadata is asked for, every content is text, all of them
\* fit the budget and a score is no number
ErrorCertain(chunks, include_metadata, max_tokens) ==
  /\ chunks # <<>>
  /\ \/ ~IsStr(chunks[1].content)
     \/ /\ include_metadata
        /\ \A i \in 1..Len(chunks) : IsStr(chunks[i].content)
        /\ TotalWords(chunks) <= max_tokens
        /\ \E i \in 1..Len(chunks) :
             chunks[i].score # Absent /\ ~IsNum(chunks[i].score)

\* C27: format_chunks and create_prompt_with_context never raise: for every
\* chunk list, malformed chunks (content that is no text, score that is no
\* number) included, format_chunks returns a text, which is empty when an
\* error occurred, and create_prompt_with_context then returns the prompt
\* it was given.
C27_FormatterNeverRaises ==
  formatter.state = "prompt_returned" =>
    LET f == format_chunks(formatter.chunks, formatter.include_metadata,
                           formatter.max_tokens)
    IN  /\ ErrorCertain(formatter.chunks, formatter.include_metadata,
                        formatter.max_tokens) => f.failed
        /\ f.failed => /\ f.ret = <<>>
                       /\ formatter.ret = formatter.prompt
        /\ DOMAIN f.ret = 1..Len(f.ret)
        /\ DOMAIN formatter.ret = 1..Len(formatter.ret)

C27_Witness ==
  /\ formatter.state = "prompt_returned"
  /\ IdsOf(formatter.chunks) = <<1, 8>>
  /\ formatter.include_metadata
  /\ formatter.max_tokens = MaxBudget
  /\ formatter.prompt = T_from
  /\ ErrorCertain(formatter.chunks, TRUE, MaxBudget)
  /\ formatter.ret = T_from

\* ========================================================== token_store.py
\* The token file is a dictionary from the hash of a token to its metadata;
\* of the metadata the fields the operations read are kept (last_used,
\* request_count, expires). An optional integer is <<>> for None or a
\* missing key and <<n>> for n. Every operation loads the whole file into a
\* dictionary of its own and, when it saves, writes that dictionary back.

\* int(os.getenv("STALE_TOKEN_DAYS", "30")) * 24 * 3600
STALE_SECONDS == 2592000

\* hashlib.sha256(token.encode()).hexdigest(), one value per token
_hash(token) == <<"sha256", token>>

\* tokens[key] = metadata / del tokens[key]
DictSet(tokens, key, metadata) == (key :> metadata) @@ tokens
DictDel(tokens, keys) == [k \in DOMAIN tokens \ keys |-> tokens[k]]

\* a token never expires
ExpiredNever(metadata, now) == FALSE

\* "expires" in metadata and metadata["expires"] is not None and
\* now > metadata["expires"]
Expired(metadata, now) ==
  metadata.expires # <<>> /\ now > metadata.expires[1]

\* last_used and (now - last_used > STALE_SECONDS)
Stale(metadata, now) ==
  /\ metadata.last_used # <<>>
  /\ metadata.last_used[1] # 0
  /\ now - metadata.last_used[1] > STALE_SECONDS

\* the part of is_valid_token behind load_tokens()
is_valid_token(tokens, api_key, now) ==
  LET token_key == _hash(api_key)
  IN  IF token_key \notin DOMAIN tokens
      THEN [ret |-> FALSE, saved |-> FALSE, tokens |-> tokens]
      ELSE IF Expired(tokens[token_key], now)
      THEN [ret |-> FALSE, saved |-> FALSE, tokens |-> tokens]
      ELSE [ret |-> TRUE, saved |-> TRUE,
            tokens |-> [tokens EXCEPT
                          ![token_key].last_used = <<now>>,
                          ![token_key].request_count = @ + 1]]

\* expires = now + ttl_seconds if ttl_seconds else None; the key "expires" is
\* set if expires:
ExpiresOf(now, ttl_seconds) ==
  IF ttl_seconds = <<>> \/ ttl_seconds[1] = 0 \/ now + ttl_seconds[1] = 0
  THEN <<>>
  ELSE <<now + ttl_seconds[1]>>

\* the part of add_token behind load_tokens()
add_token(tokens, token, ttl_seconds, now) ==
  [ret |-> token, saved |-> TRUE,
   tokens |-> DictSet(tokens, _hash(token),
                      [last_used |-> <<>>, request_count |-> 0,
                       expires |-> ExpiresOf(now, ttl_seconds)])]

\* the part of revoke_token behind load_tokens()
revoke_token(tokens, token) ==
  IF _hash(token) \in DOMAIN tokens
  THEN [ret |-> TRUE, saved |-> TRUE,
        tokens |-> DictDel(tokens, {_hash(token)})]
  ELSE [ret |-> FALSE, saved |-> FALSE, tokens |-> tokens]

\* the part of prune_stale_tokens behind load_tokens(); now was read before
\* the load; ret is the set of keys in the returned list
prune_stale_tokens(tokens, now) ==
  LET revoked == {k \in DOMAIN tokens :
                    Expired(tokens[k], now) \/ Stale(tokens[k], now)}
  IN  [ret |-> revoked, saved |-> TRUE, tokens |-> DictDel(tokens, revoked)]

\* ------------------------------------------------- callers of the store
MaxCalls == 4
MaxRaceCalls == 3
MaxTicks == 2

Tokens == {"k1", "k2"}
TtlOptions == {<<>>, <<0>>, <<1>>}

\* seconds the clock moves between two steps
TickSeconds == {1, STALE_SECONDS}

\* int(time.time()) at the start
Epoch == 1700000000

EmptyFile == [k \in {} |-> 0]

IdleCaller == [pc |-> "idle", last |-> [op |-> "none"]]

\* tok.live: the keys added and not since revoked or pruned, each with the
\* expiry its add_token gave it; tok.revoked: the tokens whose revoke_token
\* returned True with no add_token for them under way then or called since
TokInit(callers, keys, max_calls) ==
  [file |-> EmptyFile, now |-> Epoch, ticks |-> 0, calls |-> 0,
   max_calls |-> max_calls, keys |-> keys, callers |-> [p \in callers |-> IdleCaller],
   live |-> EmptyFile, revoked |-> {}]

\* one caller at a time
InitTokenSeq ==
  /\ embBackend = CHOOSE b \in EmbeddingBackends : TRUE
  /\ embedder = Idle
  /\ scorer = Idle
  /\ injector = Idle
  /\ formatter = Idle
  /\ ctl = Idle
  /\ api = Idle
  /\ two = Idle
  /\ tok = TokInit({1}, Tokens, MaxCalls)

\* two callers (two requests, or a request and the admin tool) on one file
InitTokenRace ==
  /\ embBackend = CHOOSE b \in EmbeddingBackends : TRUE
  /\ embedder = Idle
  /\ scorer = Idle
  /\ injector = Idle
  /\ formatter = Idle
  /\ ctl = Idle
  /\ api = Idle
  /\ two = Idle
  /\ tok = TokInit({1, 2}, {"k1"}, MaxRaceCalls)

\* the operation is called and runs up to the return of load_tokens()
Loaded(t, p, op, token, ttl_seconds) ==
  [t EXCEPT !.calls = @ + 1,
            !.callers[p] = [pc |-> "loaded", op |-> op, token |-> token,
                            ttl_seconds |-> ttl_seconds, tokens |-> t.file,
                            now |-> t.now,
                            since |-> token \in t.revoked,
                            last |-> [op |-> "none"]]]

CanCall(p) == tok.callers[p].pc = "idle" /\ tok.calls < tok.max_calls

CallIsValid ==
  /\ \E p \in DOMAIN tok.callers, k \in tok.keys :
       /\ CanCall(p)
       /\ tok' = Loaded(tok, p, "is_valid_token", k, <<>>)
  /\ UNCHANGED <<embBackend, embedder, scorer, injector, formatter, ctl, api, two>>

\* add_token(t) is called: a revoke of t no longer binds, neither for the
\* is_valid_token(t) calls under way
CallAdd ==
  /\ \E p \in DOMAIN tok.callers, k \in tok.keys, ttl \in TtlOptions :
       /\ CanCall(p)
       /\ LET t == Loaded(tok, p, "add_token", k, ttl)
          IN  tok' = [t EXCEPT
                        !.revoked = @ \ {k},
                        !.callers =
                           [q \in DOMAIN @ |->
                              IF @[q].pc = "loaded" /\ @[q].token = k
                              THEN [@[q] EXCEPT !.since = FALSE]
                              ELSE @[q]]]
  /\ UNCHANGED <<embBackend, embedder, scorer, injector, formatter, ctl, api, two>>

CallRevoke ==
  /\ \E p \in DOMAIN tok.callers, k \in tok.keys :
       /\ CanCall(p)
       /\ tok' = Loaded(tok, p, "revoke_token", k, <<>>)
  /\ UNCHANGED <<embBackend, embedder, scorer, injector, formatter, ctl, api, two>>

CallPrune ==
  /\ \E p \in DOMAIN tok.callers :
       /\ CanCall(p)
       /\ tok' = Loaded(tok, p, "prune_stale_tokens", "", <<>>)
  /\ UNCHANGED <<embBackend, embedder, scorer, injector, formatter, ctl, api, two>>

\* what the loaded operation of caller c does behind load_tokens()
Outcome(c, now) ==
  CASE c.op = "is_valid_token" -> is_valid_token(c.tokens, c.token, now)
    [] c.op = "add_token" -> add_token(c.tokens, c.token, c.ttl_seconds, now)
    [] c.op = "revoke_token" -> revoke_token(c.tokens, c.token)
    [] OTHER -> prune_stale_tokens(c.tokens, c.now)

\* the keys added and not since revoked or pruned
LiveAfter(live, c, r, now) ==
  CASE c.op = "add_token" ->
         DictSet(live, _hash(c.token), ExpiresOf(now, c.ttl_seconds))
    [] c.op = "revoke_token" /\ r.ret -> DictDel(live, {_hash(c.token)})
    [] c.op = "prune_stale_tokens" -> DictDel(live, r.ret)
    [] OTHER -> live

\* an add_token(token) has been called and has not returned
AddUnderWay(t, token) ==
  \E q \in DOMAIN t.callers :
     /\ t.callers[q].pc = "loaded"
     /\ t.callers[q].op = "add_token"
     /\ t.callers[q].token = token

\* the state after caller p has saved (if it saves) and returned r
Returned(t, p, r) ==
  [t EXCEPT
     !.file = IF r.saved THEN r.tokens ELSE @,
     !.live = LiveAfter(@, t.callers[p], r, t.now),
     !.revoked = IF /\ t.callers[p].op = "revoke_token"
                    /\ r.ret
                    /\ ~AddUnderWay(t, t.callers[p].token)
                 THEN @ \cup {t.callers[p].token} ELSE @,
     !.callers[p] = [pc |-> "idle",
                     last |-> [op |-> t.callers[p].op,
                               token |-> t.callers[p].token,
                               ret |-> r.ret, before |-> t.file,
                               now |-> t.now,
                               since |-> t.callers[p].since]]]

\* the rest of the operation: the change of the loaded dictionary,
\* save_tokens and the return
SaveAndReturn ==
  /\ \E p \in DOMAIN tok.callers :
       /\ tok.callers[p].pc = "loaded"
       /\ tok' = Returned(tok, p, Outcome(tok.callers[p], tok.now))
  /\ UNCHANGED <<embBackend, embedder, scorer, injector, formatter, ctl, api, two>>

Tick ==
  /\ tok.ticks < MaxTicks
  /\ \E d \in TickSeconds :
       tok' = [tok EXCEPT !.now = @ + d, !.ticks = @ + 1]
  /\ UNCHANGED <<embBackend, embedder, scorer, injector, formatter, ctl, api, two>>

NextTok ==
  CallIsValid \/ CallAdd \/ CallRevoke \/ CallPrune \/ SaveAndReturn \/ Tick

SpecTokenSeq == InitTokenSeq /\ [][NextTok]_vars

SpecTokenRace == InitTokenRace /\ [][NextTok]_vars

\* C28 as stated: under every interleaving of the calls of two callers on
\* one token file, once revoke_token(t) has returned True and until
\* add_token(t) is called again, t is absent from the file and every
\* is_valid_token(t) called in that time returns False.
C28_RevokedStaysRevoked ==
  \A t \in tok.revoked :
    /\ _hash(t) \notin DOMAIN tok.file
    /\ \A p \in DOMAIN tok.callers :
         LET l == tok.callers[p].last
         IN  (l.op = "is_valid_token" /\ l.token = t /\ l.since) => ~l.ret

\* C29: with the calls made one at a time, is_valid_token(k) returns True
\* exactly when k was added, has not since been revoked or pruned and its
\* expiry time, if it has one, has not passed; a call that returns True adds
\* exactly 1 to the request_count of k and leaves the other tokens alone,
\* and a call that returns False leaves the token file unchanged.
C29_ValidExactlyWhenLive ==
  \A p \in DOMAIN tok.callers :
    LET l == tok.callers[p].last
        h == <<"sha256", l.token>>
    IN  l.op = "is_valid_token" =>
          /\ l.ret = (/\ h \in DOMAIN tok.live
                      /\ (tok.live[h] = <<>> \/ l.now <= tok.live[h][1]))
          /\ l.ret =>
               /\ DOMAIN tok.file = DOMAIN l.before
               /\ tok.file[h].request_count = l.before[h].request_count + 1
               /\ \A k \in DOMAIN tok.file \ {h} : tok.file[k] = l.before[k]
          /\ ~l.ret => tok.file = l.before

\* validated once, then the expiry passed: the token is still in the file
\* and the call returns False
C29_Witness ==
  LET l == tok.callers[1].last
  IN  /\ l.op = "is_valid_token"
      /\ l.token = "k1"
      /\ ~l.ret
      /\ <<"sha256", "k1">> \in DOMAIN tok.file
      /\ tok.file[<<"sha256", "k1">>].request_count = 1
      /\ tok.file[<<"sha256", "k1">>].expires = <<Epoch + 1>>
      /\ <<"sha256", "k2">> \in DOMAIN tok.file
      /\ tok.now = Epoch + 2

====
